---- MODULE Spec2Model ----
(***************************************************************************)
(* Verification model of EmailToTelegram.                                  *)
(*                                                                         *)
(*   Spec       one EmailMonitor (src/email_monitor.py): per-account IMAP  *)
(*              session, failure counter, processed set and poll cycle.    *)
(*   StoreSpec  one ConfigManager (src/config_manager.py): the registry,   *)
(*              the credential cipher and the configuration file.          *)
(***************************************************************************)
EXTENDS Integers, Sequences, FiniteSets, TLC

\* ------------------------------------------------------------------------
\* Bounds of the model
\* ------------------------------------------------------------------------

\* Message ids the server may return from a search are 1..MaxMsgId.
MaxMsgId == 2

\* Cap of the per-message notification counter (an observation counter).
MaxNotify == 2

\* ------------------------------------------------------------------------
\* Program constants
\* ------------------------------------------------------------------------

\* EmailMonitor.max_errors
max_errors == 5

\* The value None of the source.
None == "None"

\* msgOutcome when no _process_message call has ended in the running check.
NoOutcome == <<0, "none">>

\* A path at which no file exists.
NoFile == [complete |-> FALSE, data |-> <<>>, exists |-> FALSE]

\* The lists of configurations a monitor may be constructed with, each
\* configuration given by its e-mail address (every per-account dict of the
\* monitor is keyed by config.email): two configurations of two mailboxes, or
\* two configurations (say two folders) of the same mailbox.
ConfigLists == {<<"a@b.com", "c@d.org">>, <<"a@b.com", "a@b.com">>}

MsgIds == 1..MaxMsgId

\* Protocol states of an aioimaplib client held in imap_clients:
\*   new       constructed, server greeting not yet received
\*   greeted   greeting received, not logged in
\*   auth      logged in, no folder selected
\*   selected  folder selected (the Active session of the specification)
ClientStates == {"new", "greeted", "auth", "selected"}

\* ---- messages and filters ----

\* A string is the sequence of its characters; these are the strings' characters.
Lower(c) == CASE c = "A" -> "a" [] c = "B" -> "b" [] OTHER -> c

\* str.lower()
lower(s) == [i \in 1..Len(s) |-> Lower(s[i])]

\* Python's  f in s  on strings: f occurs in s as a substring.
In(f, s) == \E i \in 1..(Len(s) - Len(f) + 1) : SubSeq(s, i, i + Len(f) - 1) = f

\* What _extract_email_info reads from a message: the decoded From and Subject
\* and whether a part is an attachment.
Email(sender, subject, has_attachments) ==
    [sender |-> sender, subject |-> subject, has_attachments |-> has_attachments,
     fetched |-> TRUE]

\* No message fetched.
NoEmail == [sender |-> <<>>, subject |-> <<>>, has_attachments |-> FALSE,
            fetched |-> FALSE]

\* The messages a folder may hold.
Messages ==
    {Email(f, s, h) : f \in {<<"a", "B">>, <<"b", "a">>},
                      s \in {<<"a", "B">>, <<"a">>},
                      h \in BOOLEAN}

\* The filters and the notify target of the i-th configuration of the monitor
\* (an unset string filter is None or "", both falsy: the empty sequence).
Config(i) ==
    IF i = 1
    THEN [filter_sender |-> <<"A", "b">>, filter_subject |-> <<"b">>,
          filter_has_attachments |-> "None", target_chat_id |-> 100]
    ELSE [filter_sender |-> <<>>, filter_subject |-> <<>>,
          filter_has_attachments |-> "True", target_chat_id |-> 200]

\* _should_process_email with the strings compared as they are (no lower()).
_should_process_email_CaseSensitive(email_info, config) ==
    IF config.filter_sender # <<>>
          /\ ~In(config.filter_sender, email_info.sender)
    THEN FALSE
    ELSE IF config.filter_subject # <<>>
          /\ ~In(config.filter_subject, email_info.subject)
    THEN FALSE
    ELSE IF config.filter_has_attachments # "None"
          /\ email_info.has_attachments # (config.filter_has_attachments = "True")
    THEN FALSE
    ELSE TRUE

\* EmailMonitor._should_process_email
_should_process_email(email_info, config) ==
    IF config.filter_sender # <<>>
          /\ ~In(lower(config.filter_sender), lower(email_info.sender))
    THEN FALSE
    ELSE IF config.filter_subject # <<>>
          /\ ~In(lower(config.filter_subject), lower(email_info.subject))
    THEN FALSE
    ELSE IF config.filter_has_attachments # "None"
          /\ email_info.has_attachments # (config.filter_has_attachments = "True")
    THEN FALSE
    ELSE TRUE

\* ------------------------------------------------------------------------
\* Message bodies (text is a sequence of tokens: a character, a tag or an
\* entity; payloads are given as the text their charset decodes to)
\* ------------------------------------------------------------------------

\* Most parts a multipart message of the model has.
MaxParts == 3

\* The length _extract_body cuts the body to.
body_limit == 2000

Tags == {"<b>", "</b>", "<br>"}

\* The entities _strip_html_tags replaces, with their replacements.
Entity(t) ==
    CASE t = "&nbsp;" -> " "
      [] t = "&amp;" -> "&"
      [] t = "&lt;" -> "<"
      [] t = "&gt;" -> ">"
      [] t = "&quot;" -> "\""
      [] OTHER -> t

\* re.sub(r'\s+', ' ', text): every run of whitespace becomes one space.
RECURSIVE CollapseSpace(_)
CollapseSpace(text) ==
    IF text = <<>> THEN <<>>
    ELSE IF Len(text) > 1 /\ text[1] = " " /\ text[2] = " "
         THEN CollapseSpace(Tail(text))
         ELSE <<text[1]>> \o CollapseSpace(Tail(text))

\* str.strip() of a text whose whitespace runs are single spaces.
Strip(text) ==
    LET first == IF text # <<>> /\ text[1] = " " THEN 2 ELSE 1
        last == IF text # <<>> /\ text[Len(text)] = " " THEN Len(text) - 1
                ELSE Len(text)
    IN SubSeq(text, first, last)

\* EmailMonitor._strip_html_tags: tags removed, entities replaced, whitespace
\* collapsed, ends stripped.
_strip_html_tags(html_content) ==
    LET untagged == SelectSeq(html_content, LAMBDA t : t \notin Tags)
        replaced == [i \in 1..Len(untagged) |-> Entity(untagged[i])]
    IN Strip(CollapseSpace(replaced))

\* A leaf part of a message: its content type, whether its
\* Content-Disposition is attachment, and its payload.
Part(content_type, attachment, payload) ==
    [content_type |-> content_type, attachment |-> attachment,
     payload |-> payload]

\* The parts a message of the model is built from.
Parts ==
    {Part("text/plain", FALSE, <<"p">>),
     Part("text/plain", FALSE, <<"q">>),
     Part("text/plain", FALSE, <<>>),
     Part("text/html", FALSE, <<"<b>", "h", "</b>">>),
     Part("text/html", FALSE, <<"g", "&nbsp;", " ", "&amp;">>),
     Part("text/html", FALSE, <<"<br>", "&nbsp;">>),
     Part("text/plain", TRUE, <<"x">>),
     Part("image/png", TRUE, <<"i">>)}

RECURSIVE PartLists(_)
PartLists(n) ==
    IF n = 0 THEN {<<>>}
    ELSE LET shorter == PartLists(n - 1)
         IN shorter \cup {Append(l, p) : l \in {s \in shorter : Len(s) = n - 1},
                                         p \in Parts}

\* The messages _extract_body is given: a multipart message with its leaf
\* parts in the order walk() yields them, or a message that is one part.
BodyMessages ==
    {[is_multipart |-> TRUE, parts |-> l] : l \in PartLists(MaxParts) \ {<<>>}}
        \cup {[is_multipart |-> FALSE, parts |-> <<p>>] : p \in Parts}

\* No message.
NoMessage == [is_multipart |-> FALSE, parts |-> <<>>]

\* The loop of _extract_body over the parts walk() yields, from the body
\* built so far.
RECURSIVE WalkParts(_, _)
WalkParts(parts, sofar) ==
    IF parts = <<>> THEN sofar
    ELSE LET part == Head(parts)
             next == IF part.attachment THEN sofar
                     ELSE IF part.content_type = "text/plain"
                     THEN sofar \o part.payload \o <<"\n">>
                     ELSE IF part.content_type = "text/html" /\ sofar = <<>>
                     THEN _strip_html_tags(part.payload)
                     ELSE sofar
         IN WalkParts(Tail(parts), next)

\* EmailMonitor._extract_body.
_extract_body(message) ==
    LET text == IF ~message.is_multipart
                THEN LET part == message.parts[1]
                     IN IF part.content_type = "text/plain" THEN part.payload
                        ELSE IF part.content_type = "text/html"
                        THEN _strip_html_tags(part.payload)
                        ELSE <<>>
                ELSE WalkParts(message.parts, <<>>)
    IN IF Len(text) > body_limit
       THEN SubSeq(text, 1, body_limit) \o <<".", ".", ".">>
       ELSE text

VARIABLES
    configs,             \* EmailMonitor.configs: the e-mail address of each configuration
    imap_clients,        \* EmailMonitor.imap_clients: account -> None | client state
    error_counts,        \* EmailMonitor.error_counts: account -> Nat
    processed_messages,  \* EmailMonitor.processed_messages: account -> set of ids
    pc,                  \* position of the monitor's polling task
    cur,                 \* account whose _check_emails_for_config call is running
    cfg,                 \* index in configs of the configuration of that call
    todo,                \* indices check_new_emails still has to visit
    message_ids,         \* ids _check_emails_for_config still has to process
    notifyCount,         \* account -> id -> times bot.send_message was invoked
    msgOutcome,          \* how the latest _process_message call of the running
                         \* _check_emails_for_config call ended: <<id, outcome>>
    raw_email,           \* _process_message: the message that call fetched
    observed,            \* observations of past steps (history, never read by the code)
    user_configs,        \* ConfigManager.user_configs: ordered <<owner, name -> config>>
    config_file,         \* content of the live file: [exists, complete, data]
    temp_file,           \* content of the .tmp sibling: [exists, complete, data]
    data_to_save,        \* _save_to_file: the document being written
    storePc,             \* position of the ConfigManager call in progress
    op,                  \* the ConfigManager call in progress or last finished
    result,              \* what the last finished call returned
    live_before,         \* content of the live file when the call in op began
    calls,               \* ConfigManager calls made so far
    faults,              \* I/O faults and crashes injected so far
    current_backup,      \* content of the .backup sibling of the live file
    backup_file,         \* content of the file the latest restore_configs call named
    running_users,       \* EmailBot.running_users: owners whose monitoring is on
    active_monitors,     \* EmailBot.active_monitors[user_id]: a monitor, 0 when absent
    monitor_count,       \* EmailMonitor objects start_monitoring_handler has built
    start_handler,       \* monitor -> position of the start handler that built it
    tasks,               \* monitor -> the _run_user_monitoring task its handler created
    sessions,            \* monitor -> whether it holds open IMAP sessions
    stopping,            \* monitors whose cleanup() a stop handler is awaiting
    now,                 \* the latest reading of datetime.now(timezone.utc)
    received,            \* mailbox of the account: message id -> instant of arrival
    seen,                \* ids of the mailbox that carry the \Seen flag
    started_at,          \* instant of the latest start of monitoring (history)
    polled,              \* addresses the latest poll cycle ran the pipeline for (history)
    slept,               \* seconds the latest poll cycle slept afterwards (history)
    email_message,       \* _extract_body: the message the latest call was given
    body                 \* _extract_body: what that call returned

monitorVars == <<configs, imap_clients, error_counts, processed_messages, pc, cur,
                 cfg, todo, message_ids, notifyCount, msgOutcome, raw_email,
                 observed>>

\* The keys of the monitor's per-account dicts: the e-mail addresses in configs.
Accounts == {configs[i] : i \in 1..Len(configs)}

restoreVars == <<current_backup, backup_file>>

storeVars == <<user_configs, config_file, temp_file, data_to_save, storePc, op,
               result, live_before, calls, faults, restoreVars>>

botVars == <<running_users, active_monitors, monitor_count, start_handler, tasks,
             sessions, stopping, now>>

mailVars == <<received, seen, started_at, polled, slept>>

bodyVars == <<email_message, body>>

vars == <<monitorVars, storeVars, botVars, mailVars, bodyVars>>

\* ------------------------------------------------------------------------
\* Helpers
\* ------------------------------------------------------------------------

\* The ascending sequence of the elements of a finite set of integers.
RECURSIVE SortedSeq(_)
SortedSeq(S) ==
    IF S = {} THEN <<>>
    ELSE LET m == CHOOSE x \in S : \A y \in S : x <= y
         IN <<m>> \o SortedSeq(S \ {m})

\* Steps at which the polling task is about to issue an IMAP command
\* (or open the connection) for account cur.
NetworkPcs == {"noop", "open", "hello", "login", "select", "search", "fetch"}

\* Observation recorded when the failure counter of account a becomes n.
CountObs(a, n) == IF n >= max_errors THEN {<<"tripped", a>>} ELSE {}

\* Observation recorded when a counter that stood above 0 is reset; it is kept
\* until the search that follows the reset has been issued.
ResetObs(a) == IF error_counts[a] > 0 THEN {<<"reset", a>>} ELSE {}

\* Observation recorded when a _check_emails_for_config call has assigned
\* config.last_check_time; it is kept until the next call begins or the pass ends.
AdvancedObs == {<<"advanced", i>> : i \in 1..Len(configs)}

\* ------------------------------------------------------------------------
\* EmailMonitor.__init__
\* ------------------------------------------------------------------------

MonitorInit ==
    /\ configs \in ConfigLists
    /\ imap_clients = [a \in Accounts |-> None]
    /\ error_counts = [a \in Accounts |-> 0]
    /\ processed_messages = [a \in Accounts |-> {}]
    /\ pc = "idle"
    /\ cur = None
    /\ cfg = 0
    /\ todo = <<>>
    /\ message_ids = <<>>
    /\ notifyCount = [a \in Accounts |-> [m \in MsgIds |-> 0]]
    /\ msgOutcome = NoOutcome
    /\ raw_email = NoEmail
    /\ observed = {}

\* ------------------------------------------------------------------------
\* EmailMonitor.check_new_emails
\* ------------------------------------------------------------------------


\* The polling loop wakes and starts a pass over all configurations.
CycleStart ==
    /\ pc = "idle"
    /\ pc' = "next"
    /\ todo' = [i \in 1..Len(configs) |-> i]
    /\ UNCHANGED <<imap_clients, error_counts, processed_messages, cur, cfg, configs,
                   message_ids, notifyCount, msgOutcome, raw_email, observed>>
    /\ UNCHANGED storeVars
    /\ UNCHANGED botVars
    /\ UNCHANGED mailVars
    /\ UNCHANGED bodyVars

\* The pass is over: the loop goes to sleep.
CycleEnd ==
    /\ pc = "next"
    /\ todo = <<>>
    /\ pc' = "idle"
    /\ cur' = None
    /\ cfg' = 0
    /\ observed' = observed \ AdvancedObs
    /\ UNCHANGED configs
    /\ UNCHANGED <<imap_clients, error_counts, processed_messages, todo,
                   message_ids, notifyCount, msgOutcome, raw_email>>
    /\ UNCHANGED storeVars
    /\ UNCHANGED botVars
    /\ UNCHANGED mailVars
    /\ UNCHANGED bodyVars

\* ------------------------------------------------------------------------
\* EmailMonitor._check_emails_for_config and EmailMonitor._connect
\* ------------------------------------------------------------------------


\* The test of line 257 with the circuit breaker taken out.
CircuitOpen_Disabled(a) == FALSE

\* CircuitOpen with the comparison off by one (> for >=).
CircuitOpen_OffByOne(a) == error_counts[a] > max_errors

\* The circuit-breaker test at the head of _check_emails_for_config.
CircuitOpen(a) == error_counts[a] >= max_errors

\* _check_emails_for_config returns: check_new_emails moves to the next config.
ReturnFromCheck ==
    /\ pc' = "next"
    /\ message_ids' = <<>>
    /\ msgOutcome' = NoOutcome
    /\ raw_email' = NoEmail

\* The except branch of _connect: drop the handle, count the failure, return False.
ConnectException(a) ==
    /\ imap_clients' = [imap_clients EXCEPT ![a] = None]
    /\ error_counts' = [error_counts EXCEPT ![a] = @ + 1]
    /\ observed' = observed \cup CountObs(a, error_counts[a] + 1)
    /\ ReturnFromCheck

\* _connect returns False after a rejected login or folder selection: plain return.
ConnectRejected(a) ==
    /\ ReturnFromCheck
    /\ UNCHANGED <<imap_clients, error_counts, observed>>

\* Entry of _check_emails_for_config for the next configuration of the pass.
BeginCheck ==
    /\ pc = "next"
    /\ todo # <<>>
    /\ LET a == configs[Head(todo)] IN
        /\ cur' = a
        /\ cfg' = Head(todo)
        /\ todo' = Tail(todo)
        /\ IF CircuitOpen(a)
           THEN /\ pc' = "next"
                /\ observed' = (observed \ AdvancedObs) \cup {<<"skipped", a>>}
           ELSE /\ pc' = IF imap_clients[a] # None THEN "noop" ELSE "open"
                /\ observed' = observed \ AdvancedObs
    /\ UNCHANGED <<configs, imap_clients, error_counts, processed_messages,
                   message_ids, notifyCount, msgOutcome, raw_email>>
    /\ UNCHANGED storeVars
    /\ UNCHANGED botVars
    /\ UNCHANGED mailVars
    /\ UNCHANGED bodyVars

\* Noop with the failure counter also reset by a successful probe.
Noop_ResetsCounter ==
    /\ pc = "noop"
    /\ \E outcome \in {"ok", "raise"} :
        IF outcome = "ok"
        THEN /\ pc' = "search"
             /\ error_counts' = [error_counts EXCEPT ![cur] = 0]
             /\ UNCHANGED imap_clients
        ELSE /\ imap_clients' = [imap_clients EXCEPT ![cur] = None]
             /\ pc' = "open"
             /\ UNCHANGED error_counts
    /\ UNCHANGED <<processed_messages, cur, cfg, configs, todo, message_ids,
                   notifyCount, msgOutcome, raw_email, observed>>
    /\ UNCHANGED storeVars
    /\ UNCHANGED botVars
    /\ UNCHANGED mailVars
    /\ UNCHANGED bodyVars

\* _connect, existing handle: the NOOP probe.
Noop ==
    /\ pc = "noop"
    /\ \E outcome \in {"ok", "raise"} :
        IF outcome = "ok"
        THEN /\ pc' = "search"
             /\ UNCHANGED imap_clients
        ELSE /\ imap_clients' = [imap_clients EXCEPT ![cur] = None]
             /\ pc' = "open"
    /\ UNCHANGED <<error_counts, processed_messages, cur, cfg, configs, todo, message_ids,
                   notifyCount, msgOutcome, raw_email, observed>>
    /\ UNCHANGED storeVars
    /\ UNCHANGED botVars
    /\ UNCHANGED mailVars
    /\ UNCHANGED bodyVars

\* _connect: aioimaplib.IMAP4_SSL(...) is constructed and stored.
Open ==
    /\ pc = "open"
    /\ \E outcome \in {"ok", "raise"} :
        IF outcome = "ok"
        THEN /\ imap_clients' = [imap_clients EXCEPT ![cur] = "new"]
             /\ pc' = "hello"
             /\ UNCHANGED <<error_counts, message_ids, msgOutcome, raw_email, observed>>
        ELSE ConnectException(cur)
    /\ UNCHANGED <<processed_messages, cur, cfg, configs, todo, notifyCount>>
    /\ UNCHANGED storeVars
    /\ UNCHANGED botVars
    /\ UNCHANGED mailVars
    /\ UNCHANGED bodyVars

\* _connect: wait_hello_from_server.
Hello ==
    /\ pc = "hello"
    /\ \E outcome \in {"ok", "raise"} :
        IF outcome = "ok"
        THEN /\ imap_clients' = [imap_clients EXCEPT ![cur] = "greeted"]
             /\ pc' = "login"
             /\ UNCHANGED <<error_counts, message_ids, msgOutcome, raw_email, observed>>
        ELSE ConnectException(cur)
    /\ UNCHANGED <<processed_messages, cur, cfg, configs, todo, notifyCount>>
    /\ UNCHANGED storeVars
    /\ UNCHANGED botVars
    /\ UNCHANGED mailVars
    /\ UNCHANGED bodyVars

\* _connect: login.
Login ==
    /\ pc = "login"
    /\ \E outcome \in {"OK", "NO", "raise"} :
        CASE outcome = "OK" ->
                /\ imap_clients' = [imap_clients EXCEPT ![cur] = "auth"]
                /\ pc' = "select"
                /\ UNCHANGED <<error_counts, message_ids, msgOutcome, raw_email, observed>>
          [] outcome = "NO" -> ConnectRejected(cur)
          [] outcome = "raise" -> ConnectException(cur)
    /\ UNCHANGED <<processed_messages, cur, cfg, configs, todo, notifyCount>>
    /\ UNCHANGED storeVars
    /\ UNCHANGED botVars
    /\ UNCHANGED mailVars
    /\ UNCHANGED bodyVars

\* _connect: select folder; on OK the failure counter is reset.
Select ==
    /\ pc = "select"
    /\ \E outcome \in {"OK", "NO", "raise"} :
        CASE outcome = "OK" ->
                /\ imap_clients' = [imap_clients EXCEPT ![cur] = "selected"]
                /\ error_counts' = [error_counts EXCEPT ![cur] = 0]
                /\ observed' = observed \cup ResetObs(cur)
                /\ pc' = "search"
                /\ UNCHANGED <<message_ids, msgOutcome, raw_email>>
          [] outcome = "NO" -> ConnectRejected(cur)
          [] outcome = "raise" -> ConnectException(cur)
    /\ UNCHANGED <<processed_messages, cur, cfg, configs, todo, notifyCount>>
    /\ UNCHANGED storeVars
    /\ UNCHANGED botVars
    /\ UNCHANGED mailVars
    /\ UNCHANGED bodyVars

\* CheckException with last_check_time assigned on the way out as well.
CheckException_Advances(a) ==
    /\ error_counts' = [error_counts EXCEPT ![a] = @ + 1]
    /\ imap_clients' = [imap_clients EXCEPT ![a] = None]
    /\ observed' = (observed \ {<<"reset", a>>}) \cup CountObs(a, error_counts[a] + 1)
                       \cup {<<"advanced", cfg>>}
    /\ ReturnFromCheck

\* _check_emails_for_config: the except branch around search and the message loop.
CheckException(a) ==
    /\ error_counts' = [error_counts EXCEPT ![a] = @ + 1]
    /\ imap_clients' = [imap_clients EXCEPT ![a] = None]
    /\ observed' = (observed \ {<<"reset", a>>}) \cup CountObs(a, error_counts[a] + 1)
    /\ ReturnFromCheck

\* Results the server can give to SEARCH on a handle in state st: a list of ids
\* only when the folder is selected; otherwise the command is refused.
SearchOutcomes(st) ==
    IF st = "selected"
    THEN {<<"OK", SortedSeq(S)>> : S \in SUBSET MsgIds}
             \cup {<<"NO", <<>>>>, <<"raise", <<>>>>}
    ELSE {<<"NO", <<>>>>, <<"raise", <<>>>>}

\* _check_emails_for_config: search with the criteria of _build_search_criteria.
Search ==
    /\ pc = "search"
    /\ \E outcome \in SearchOutcomes(imap_clients[cur]) :
        CASE outcome[1] = "OK" ->
                /\ message_ids' = outcome[2]
                /\ pc' = "msgs"
                /\ observed' = observed \ {<<"reset", cur>>}
                /\ UNCHANGED <<imap_clients, error_counts, msgOutcome, raw_email>>
          [] outcome[1] = "NO" ->
                /\ ReturnFromCheck
                /\ observed' = observed \ {<<"reset", cur>>}
                /\ UNCHANGED <<imap_clients, error_counts>>
          [] outcome[1] = "raise" -> CheckException(cur)
    /\ UNCHANGED <<processed_messages, cur, cfg, configs, todo, notifyCount>>
    /\ UNCHANGED storeVars
    /\ UNCHANGED botVars
    /\ UNCHANGED mailVars
    /\ UNCHANGED bodyVars

\* _check_emails_for_config: the loop over message_ids is over and
\* config.last_check_time = datetime.now(timezone.utc) is executed.
FinishCheck ==
    /\ pc = "msgs"
    /\ message_ids = <<>>
    /\ observed' = observed \cup {<<"advanced", cfg>>}
    /\ ReturnFromCheck
    /\ UNCHANGED <<imap_clients, error_counts, processed_messages, cur, cfg, configs, todo,
                   notifyCount>>
    /\ UNCHANGED storeVars
    /\ UNCHANGED botVars
    /\ UNCHANGED mailVars
    /\ UNCHANGED bodyVars

\* ------------------------------------------------------------------------
\* EmailMonitor._process_message
\* ------------------------------------------------------------------------

\* AlreadyProcessed with the dedup test lost.
AlreadyProcessed_Never(a, m) == FALSE

\* The dedup test at the head of _process_message.
AlreadyProcessed(a, m) == m \in processed_messages[a]

\* Entry of _process_message for the next id of the loop.
ProcessMessage ==
    /\ pc = "msgs"
    /\ message_ids # <<>>
    /\ LET m == Head(message_ids) IN
        IF AlreadyProcessed(cur, m)
        THEN /\ message_ids' = Tail(message_ids)
             /\ pc' = "msgs"
             /\ msgOutcome' = <<m, "already">>
             /\ raw_email' = NoEmail
        ELSE /\ pc' = "fetch"
             /\ UNCHANGED <<message_ids, msgOutcome, raw_email>>
    /\ UNCHANGED <<imap_clients, error_counts, processed_messages, cur, cfg, configs, todo,
                   notifyCount, observed>>
    /\ UNCHANGED storeVars
    /\ UNCHANGED botVars
    /\ UNCHANGED mailVars
    /\ UNCHANGED bodyVars


\* Fetch with an exception of the fetch command left to the except branch of
\* _check_emails_for_config (no try/except inside _process_message).
Fetch_FailureAborts ==
    /\ pc = "fetch"
    /\ LET m == Head(message_ids) IN
       \/ /\ CheckException(cur)
          /\ UNCHANGED processed_messages
       \/ \E msg \in Messages :
             /\ raw_email' = msg
             /\ IF ~_should_process_email(msg, Config(cfg))
                THEN /\ processed_messages' =
                            [processed_messages EXCEPT ![cur] = @ \cup {m}]
                     /\ message_ids' = Tail(message_ids)
                     /\ pc' = "msgs"
                     /\ msgOutcome' = <<m, "filtered">>
                ELSE /\ pc' = "notify"
                     /\ UNCHANGED <<processed_messages, message_ids, msgOutcome>>
             /\ UNCHANGED <<imap_clients, error_counts, observed>>
    /\ UNCHANGED <<cur, cfg, configs, todo, notifyCount>>
    /\ UNCHANGED storeVars
    /\ UNCHANGED botVars
    /\ UNCHANGED mailVars
    /\ UNCHANGED bodyVars

\* _process_message: fetch, parse (_extract_email_info) and filter
\* (_should_process_email) of the id at the head of message_ids.
Fetch ==
    /\ pc = "fetch"
    /\ LET m == Head(message_ids) IN
       \/ \E outcome \in {"fetch_no", "fetch_raise"} :
             /\ message_ids' = Tail(message_ids)
             /\ pc' = "msgs"
             /\ msgOutcome' = <<m, outcome>>
             /\ raw_email' = NoEmail
             /\ UNCHANGED processed_messages
       \/ \E msg \in Messages : \E parsed \in BOOLEAN :
             /\ raw_email' = msg
             /\ IF ~parsed
                THEN /\ message_ids' = Tail(message_ids)
                     /\ pc' = "msgs"
                     /\ msgOutcome' = <<m, "parse_raise">>
                     /\ UNCHANGED processed_messages
                ELSE IF ~_should_process_email(msg, Config(cfg))
                THEN /\ processed_messages' =
                            [processed_messages EXCEPT ![cur] = @ \cup {m}]
                     /\ message_ids' = Tail(message_ids)
                     /\ pc' = "msgs"
                     /\ msgOutcome' = <<m, "filtered">>
                ELSE /\ pc' = "notify"
                     /\ UNCHANGED <<processed_messages, message_ids, msgOutcome>>
    /\ UNCHANGED <<imap_clients, error_counts, cur, cfg, configs, todo, notifyCount, observed>>
    /\ UNCHANGED storeVars
    /\ UNCHANGED botVars
    /\ UNCHANGED mailVars
    /\ UNCHANGED bodyVars

\* Notify with the id added to the processed set only when the dispatch succeeded.
Notify_AddsOnlyOnSuccess ==
    /\ pc = "notify"
    /\ LET m == Head(message_ids) IN
        /\ notifyCount[cur][m] < MaxNotify
        /\ notifyCount' = [notifyCount EXCEPT ![cur][m] = @ + 1]
        /\ observed' = observed \cup {<<"sent", cfg, Config(cfg).target_chat_id>>}
        /\ \E sent \in {"notified", "send_failed"} :
              /\ msgOutcome' = <<m, sent>>
              /\ processed_messages' =
                     IF sent = "notified"
                     THEN [processed_messages EXCEPT ![cur] = @ \cup {m}]
                     ELSE processed_messages
        /\ message_ids' = Tail(message_ids)
        /\ pc' = "msgs"
    /\ UNCHANGED <<imap_clients, error_counts, cur, cfg, configs, todo, raw_email>>
    /\ UNCHANGED storeVars
    /\ UNCHANGED botVars
    /\ UNCHANGED mailVars
    /\ UNCHANGED bodyVars

\* _process_message: _send_notification (bot.send_message is invoked with the
\* configuration's target_chat_id; it delivers, or raises and the exception is
\* caught inside _send_notification), then the id joins the processed set.
Notify ==
    /\ pc = "notify"
    /\ LET m == Head(message_ids) IN
        /\ notifyCount[cur][m] < MaxNotify
        /\ notifyCount' = [notifyCount EXCEPT ![cur][m] = @ + 1]
        /\ observed' = observed \cup {<<"sent", cfg, Config(cfg).target_chat_id>>}
        /\ \E sent \in {"notified", "send_failed"} : msgOutcome' = <<m, sent>>
        /\ processed_messages' = [processed_messages EXCEPT ![cur] = @ \cup {m}]
        /\ message_ids' = Tail(message_ids)
        /\ pc' = "msgs"
    /\ UNCHANGED <<imap_clients, error_counts, cur, cfg, configs, todo, raw_email>>
    /\ UNCHANGED storeVars
    /\ UNCHANGED botVars
    /\ UNCHANGED mailVars
    /\ UNCHANGED bodyVars

\* ------------------------------------------------------------------------
\* Specification of the monitor
\* ------------------------------------------------------------------------

\* The store is not part of this specification: its variables stay as they are.
StoreIdle ==
    /\ user_configs = <<>>
    /\ config_file = NoFile
    /\ temp_file = NoFile
    /\ data_to_save = <<>>
    /\ storePc = "ready"
    /\ op = [kind |-> "none", owner |-> 0, name |-> "", written |-> "n/a"]
    /\ result = None
    /\ live_before = NoFile
    /\ calls = 0
    /\ faults = 0
    /\ current_backup = NoFile
    /\ backup_file = NoFile


\* ---- EmailBot: the state before any /start_monitoring ----

\* How many times start_monitoring_handler gets as far as building a monitor.
MaxStarts == 2

\* How far the clock runs.
MaxTime == 1

\* The EmailMonitor objects, numbered in the order they are built.
Monitors == 1..MaxStarts

\* A monitor for which asyncio.create_task(_run_user_monitoring) has not run.
\*   pc       position of the task
\*   monitor  the task's local variable monitor (0 before line 662)
\*   target   the monitor whose cleanup() the task's finally block awaits
\*   stopped  history: a stop removed the owner while this task was alive
\*   advanced history: the configurations whose last_check_time the task's
\*            latest check_new_emails call has set
\*   attempts history: times the except branch invoked bot.send_message
\*            (0 until the loop ends through an error)
NoTask == [pc |-> "none", monitor |-> 0, target |-> 0, stopped |-> FALSE,
           advanced |-> {}, errored |-> FALSE, attempts |-> 0]

\* A task that has returned; its local variables are gone.
DoneTask == [NoTask EXCEPT !.pc = "done"]

\* EmailBot.__init__
BotIdle ==
    /\ running_users = {}
    /\ active_monitors = 0
    /\ monitor_count = 0
    /\ start_handler = [k \in Monitors |-> "none"]
    /\ tasks = [k \in Monitors |-> NoTask]
    /\ sessions = [k \in Monitors |-> "none"]
    /\ stopping = {}
    /\ now = 0

\* ---- the mailbox of an account ----

\* A message the server has not received.
NotYet == -1

\* No message has arrived and monitoring has never been started.
MailIdle ==
    /\ received = [m \in MsgIds |-> NotYet]
    /\ seen = {}
    /\ started_at = NotYet
    /\ polled = <<>>
    /\ slept = 0

\* _extract_body has not been called.
BodyIdle ==
    /\ email_message = NoMessage
    /\ body = <<>>

Init == MonitorInit /\ StoreIdle /\ BotIdle /\ MailIdle /\ BodyIdle

Next ==
    \/ CycleStart
    \/ BeginCheck
    \/ Noop
    \/ Open
    \/ Hello
    \/ Login
    \/ Select
    \/ Search
    \/ ProcessMessage
    \/ Fetch
    \/ Notify
    \/ FinishCheck
    \/ CycleEnd

Spec == Init /\ [][Next]_vars

\* ------------------------------------------------------------------------
\* _process_message over the cycles of a monitor
\* ------------------------------------------------------------------------

\* EmailMonitor._process_message(message_id, config) as one step, for the i-th
\* configuration and an id m that the search of one of its cycles returned
\* (the steps of the call are not separated here and the position of the
\* polling task is not tracked). The observation <<"fetch_failed", i, m>>
\* records that the latest fetch of m for configuration i did not succeed.
_process_message(i, m) ==
    /\ cfg' = i
    /\ cur' = configs[i]
    /\ LET a == configs[i] IN
       IF AlreadyProcessed(a, m)
       THEN /\ msgOutcome' = <<m, "already">>
            /\ raw_email' = NoEmail
            /\ UNCHANGED <<processed_messages, notifyCount, observed>>
       ELSE \/ \E outcome \in {"fetch_no", "fetch_raise"} :
                  /\ msgOutcome' = <<m, outcome>>
                  /\ raw_email' = NoEmail
                  /\ observed' = observed \cup {<<"fetch_failed", i, m>>}
                  /\ UNCHANGED <<processed_messages, notifyCount>>
            \/ \E msg \in Messages : \E parsed \in BOOLEAN :
                  /\ raw_email' = msg
                  /\ observed' = observed \ {<<"fetch_failed", i, m>>}
                  /\ IF ~parsed
                     THEN /\ msgOutcome' = <<m, "parse_raise">>
                          /\ UNCHANGED <<processed_messages, notifyCount>>
                     ELSE IF ~_should_process_email(msg, Config(i))
                     THEN /\ msgOutcome' = <<m, "filtered">>
                          /\ processed_messages' =
                                 [processed_messages EXCEPT ![a] = @ \cup {m}]
                          /\ UNCHANGED notifyCount
                     ELSE /\ notifyCount[a][m] < MaxNotify
                          /\ notifyCount' = [notifyCount EXCEPT ![a][m] = @ + 1]
                          /\ \E sent \in {"notified", "send_failed"} :
                                 msgOutcome' = <<m, sent>>
                          /\ processed_messages' =
                                 [processed_messages EXCEPT ![a] = @ \cup {m}]
    /\ UNCHANGED <<configs, imap_clients, error_counts, pc, todo, message_ids>>
    /\ UNCHANGED storeVars
    /\ UNCHANGED botVars
    /\ UNCHANGED mailVars
    /\ UNCHANGED bodyVars

RetryNext == \E i \in 1..Len(configs) : \E m \in MsgIds : _process_message(i, m)

\* A monitor as constructed, as in Init.
RetryInit == Init

RetrySpec == RetryInit /\ [][RetryNext]_vars

\* ------------------------------------------------------------------------
\* _extract_body over the messages of the model
\* ------------------------------------------------------------------------

\* _extract_email_info hands a parsed message to _extract_body.
ExtractBody(message) ==
    /\ email_message' = message
    /\ body' = _extract_body(message)
    /\ UNCHANGED monitorVars
    /\ UNCHANGED storeVars
    /\ UNCHANGED botVars
    /\ UNCHANGED mailVars

ExtractNext == \E message \in BodyMessages : ExtractBody(message)

\* A monitor as constructed, before any message was parsed.
ExtractInit == Init

ExtractSpec == ExtractInit /\ [][ExtractNext]_vars


\* ========================================================================
\* ConfigManager (src/config_manager.py)
\* ========================================================================

\* Bounds of the store model: ConfigManager calls made, and I/O faults and
\* crashes injected, in one behaviour.
MaxCalls == 2

MaxFaults == 1

\* Owners (Telegram user ids) and the file keys str(user_id) / int(user_id_str).
Owners == {42, 7}

OwnerKey(o) == IF o = 42 THEN "42" ELSE "7"

KeyOwner(k) == IF k = "42" THEN 42 ELSE 7

\* Login addresses, and the config names a caller passes to save and delete.
Emails == {"a@b.com"}

CallNames == {"host", "work"}

\* Credential values are pairs <<kind, text>>:
\*   <<"str", t>>    an ordinary string t
\*   <<"int", t>>    a value that is not a string (str.encode is missing)
\*   <<"token", t>>  the Fernet token, under the manager's key, of the string t
StrPw == <<"str", "pw">>

IntPw == <<"int", "12345">>

Passwords == {StrPw, IntPw}

\* last_check_time values: None, a datetime, and its isoformat() string.
NoTime == <<"none">>

Dt(t) == <<"dt", t>>

Iso(t) == <<"iso", t>>

\* The fields of EmailConfig the model keeps (port, folder, check_interval,
\* target_chat_id, user_id and the filters are copied unchanged by to_dict and
\* from_dict, like host).
FieldNames == {"host", "email", "password", "config_name", "last_check_time"}

RequiredFields == {"host", "email", "password"}

\* An EmailConfig value.
EmailConfig(email, password, config_name, last_check_time) ==
    [host |-> "imap", email |-> email, password |-> password,
     config_name |-> config_name, last_check_time |-> last_check_time]

\* The calls save_user_config(user_id, config, config_name) of the model, as
\* pairs <<config, config_name>>: with a name, and with None for a config that
\* carries a name of its own or none.
SaveCalls ==
    {<<EmailConfig(e, StrPw, "default", t), n>> :
         e \in Emails, t \in {NoTime, Dt(1)}, n \in CallNames}
    \cup {<<EmailConfig(e, IntPw, "default", NoTime), n>> :
         e \in Emails, n \in CallNames}
    \cup {<<EmailConfig(e, StrPw, cn, NoTime), None>> :
         e \in Emails, cn \in {"", "work"}}

\* A file that holds the complete JSON text of document d.
CompleteFile(d) == [exists |-> TRUE, complete |-> TRUE, data |-> d]

\* A file whose JSON text was cut short.
PartialFile == [exists |-> TRUE, complete |-> FALSE, data |-> <<>>]

\* ---- ordered dict owner -> inner map, as a sequence of <<key, value>> ----

DictKeys(d) == {d[i][1] : i \in 1..Len(d)}

DictHas(d, k) == k \in DictKeys(d)

DictGet(d, k) == d[CHOOSE i \in 1..Len(d) : d[i][1] = k][2]

\* d[k] = v: in place when the key exists, appended otherwise.
DictPut(d, k, v) ==
    IF DictHas(d, k)
    THEN [i \in 1..Len(d) |-> IF d[i][1] = k THEN <<k, v>> ELSE d[i]]
    ELSE Append(d, <<k, v>>)

\* del d[k]
DictDel(d, k) == SelectSeq(d, LAMBDA e : e[1] # k)

\* The empty inner map {}.
EmptyMap == [n \in {} |-> NoTime]

\* m[n] = c for an inner map m (name -> value).
MapPut(m, n, c) == [x \in DOMAIN m \cup {n} |-> IF x = n THEN c ELSE m[x]]

\* del m[n]
MapDel(m, n) == [x \in DOMAIN m \ {n} |-> m[x]]

\* ---- Credential cipher ----

\* A credential value Python treats as true in `if config_dict.get('password')`.
Truthy(p) == p # <<"str", "">>

\* ConfigManager._encrypt_password: the token of a string; when the cipher step
\* raises (the value has no encode()), the except branch returns its argument.
_encrypt_password(p) == IF p[1] = "str" THEN <<"token", p[2]>> ELSE p

\* _decrypt_password with an except branch that returns the empty string.
_decrypt_password_Blank(x) == IF x[1] = "token" THEN <<"str", x[2]>> ELSE <<"str", "">>

\* ConfigManager._decrypt_password: the plaintext of a token; when decoding or
\* decrypting raises, the except branch returns its argument.
_decrypt_password(x) == IF x[1] = "token" THEN <<"str", x[2]>> ELSE x

\* ---- EmailConfig.to_dict / from_dict ----

to_dict(c) ==
    [host |-> c.host, email |-> c.email, password |-> c.password,
     config_name |-> c.config_name,
     last_check_time |->
         IF c.last_check_time # NoTime THEN Iso(c.last_check_time[2]) ELSE NoTime]

\* cls(**data) raises TypeError on an unknown key or a missing required field.
FromDictRaises(d) ==
    ~(RequiredFields \subseteq DOMAIN d /\ DOMAIN d \subseteq FieldNames)

from_dict(d) ==
    [host |-> d.host, email |-> d.email, password |-> d.password,
     config_name |->
         IF "config_name" \in DOMAIN d THEN d.config_name ELSE "default",
     last_check_time |->
         IF "last_check_time" \in DOMAIN d /\ d.last_check_time # NoTime
         THEN Dt(d.last_check_time[2]) ELSE NoTime]

\* config_dict with its password decrypted, as both loaders do before from_dict.
DecryptDict(d) ==
    IF "password" \in DOMAIN d /\ Truthy(d.password)
    THEN [d EXCEPT !.password = _decrypt_password(d.password)]
    ELSE d

\* ---- _save_to_file: serialization ----

\* config.to_dict() with the password encrypted.
EncryptDict(c) ==
    LET d == to_dict(c) IN
    IF Truthy(d.password)
    THEN [d EXCEPT !.password = _encrypt_password(d.password)]
    ELSE d

\* data_to_save: the nested document of the whole registry.
Serialize(reg) ==
    [i \in 1..Len(reg) |->
        <<OwnerKey(reg[i][1]),
          [n \in DOMAIN reg[i][2] |-> EncryptDict(reg[i][2][n])]>>]

\* ---- _load_configs ----

\* ConfigManager._is_old_format
_is_old_format(data) ==
    IF data = <<>> THEN FALSE ELSE "host" \in DOMAIN data[1][2]

\* The name _migrate_from_old_format gives a migrated config.
MigratedName(config) ==
    IF config.config_name = "" \/ config.config_name = "default"
    THEN config.email ELSE config.config_name

\* MigrateRecord with the decryption of the stored credential left out.
MigrateRecord_NoDecrypt(reg, k, d) ==
    IF FromDictRaises(d)
    THEN reg
    ELSE LET c0 == from_dict(d)
             config == [c0 EXCEPT !.config_name = MigratedName(c0)]
             user_id == KeyOwner(k)
             inner == IF DictHas(reg, user_id) THEN DictGet(reg, user_id)
                      ELSE EmptyMap
         IN DictPut(reg, user_id, MapPut(inner, config.config_name, config))

\* One iteration of the loop of _migrate_from_old_format.
MigrateRecord(reg, k, d) ==
    IF FromDictRaises(d)
    THEN reg
    ELSE LET c0 == from_dict(DecryptDict(d))
             config == [c0 EXCEPT !.config_name = MigratedName(c0)]
             user_id == KeyOwner(k)
             inner == IF DictHas(reg, user_id) THEN DictGet(reg, user_id)
                      ELSE EmptyMap
         IN DictPut(reg, user_id, MapPut(inner, config.config_name, config))

\* ConfigManager._migrate_from_old_format, without its final _save_to_file.
RECURSIVE _migrate_from_old_format(_, _)
_migrate_from_old_format(reg, old_data) ==
    IF old_data = <<>> THEN reg
    ELSE _migrate_from_old_format(
             MigrateRecord(reg, Head(old_data)[1], Head(old_data)[2]),
             Tail(old_data))

\* LoadUserData with the records whose credential does not decrypt left out.
LoadUserData_SkipsUndecryptable(user_data) ==
    LET ok == {n \in DOMAIN user_data :
                   /\ ~FromDictRaises(user_data[n])
                   /\ user_data[n].password[1] = "token"}
    IN [n \in ok |-> from_dict(DecryptDict(user_data[n]))]

\* The inner loop of _load_new_format for one owner: the records that load.
LoadUserData(user_data) ==
    LET ok == {n \in DOMAIN user_data : ~FromDictRaises(user_data[n])}
    IN [n \in ok |-> from_dict(DecryptDict(user_data[n]))]

\* ConfigManager._load_new_format
RECURSIVE _load_new_format(_, _)
_load_new_format(reg, data) ==
    IF data = <<>> THEN reg
    ELSE _load_new_format(
             DictPut(reg, KeyOwner(Head(data)[1]), LoadUserData(Head(data)[2])),
             Tail(data))

\* The registry _load_configs leaves in a manager that starts empty on file f.
LoadedRegistry(f) ==
    IF ~f.exists \/ ~f.complete THEN <<>>
    ELSE IF _is_old_format(f.data) THEN _migrate_from_old_format(<<>>, f.data)
    ELSE _load_new_format(<<>>, f.data)

\* ---- registry queries ----

\* ConfigManager.list_user_config_names (as the set of the names)
list_user_config_names(reg, user_id) ==
    IF DictHas(reg, user_id) THEN DOMAIN DictGet(reg, user_id) ELSE {}

\* ConfigManager.get_user_config with a name: the config, or NoConfig.
NoConfig == [host |-> "", email |-> "", password |-> <<"str", "">>,
             config_name |-> "", last_check_time |-> NoTime]

get_user_config(reg, user_id, config_name) ==
    IF config_name \in list_user_config_names(reg, user_id)
    THEN DictGet(reg, user_id)[config_name] ELSE NoConfig

\* ---- files a legacy installation may have left ----

LegacyToken == [host |-> "imap", email |-> "a@b.com", password |-> <<"token", "pw">>]

LegacyNamed == [host |-> "imap", email |-> "a@b.com", password |-> <<"token", "pw">>,
                config_name |-> "work"]

LegacyGarbled == [host |-> "imap", email |-> "a@b.com",
                  password |-> <<"str", "garbage">>, config_name |-> "default"]

LegacyMalformed == [host |-> "imap", password |-> <<"token", "pw">>]

LegacyRecords == {LegacyToken, LegacyNamed, LegacyGarbled, LegacyMalformed}

LegacyDocs ==
    {<<<<"42", r>>>> : r \in LegacyRecords}
        \cup {<<<<"42", r>>, <<"7", LegacyToken>>>> : r \in LegacyRecords}

InitialFiles == {NoFile} \cup {CompleteFile(d) : d \in LegacyDocs}


\* ---- the calls ----

\* The op record of a call: what was called, with what, how many configs the
\* owner had at entry, and how the call's _save_to_file run ended
\* ("n/a" none was made, "pending", "yes" the live file was replaced, "no").
OpRecord(kind, owner, name, config, had, written) ==
    [kind |-> kind, owner |-> owner, name |-> name, config |-> config,
     had |-> had, written |-> written]

NoOp == OpRecord("none", 0, "", NoConfig, 0, "n/a")

\* _save_to_file starts: the registry reg is serialized; the write steps follow.
BeginSaveToFile(reg) ==
    /\ data_to_save' = Serialize(reg)
    /\ storePc' = "open_temp"
    /\ result' = None
    /\ UNCHANGED <<config_file, temp_file>>

\* ConfigManager.__init__ -> _load_configs
LoadConfigs ==
    /\ storePc = "boot"
    /\ live_before' = config_file
    /\ IF ~config_file.exists \/ ~config_file.complete
       THEN /\ op' = OpRecord("load", 0, "", NoConfig, 0, "n/a")
            /\ storePc' = "ready"
            /\ result' = None
            /\ UNCHANGED <<user_configs, config_file, temp_file, data_to_save>>
       ELSE IF _is_old_format(config_file.data)
       THEN /\ user_configs' = _migrate_from_old_format(user_configs, config_file.data)
            /\ op' = OpRecord("migrate", 0, "", NoConfig, 0, "pending")
            /\ BeginSaveToFile(user_configs')
       ELSE /\ user_configs' = _load_new_format(user_configs, config_file.data)
            /\ op' = OpRecord("load", 0, "", NoConfig, 0, "n/a")
            /\ storePc' = "ready"
            /\ result' = None
            /\ UNCHANGED <<config_file, temp_file, data_to_save>>
    /\ UNCHANGED <<calls, faults>>
    /\ UNCHANGED restoreVars
    /\ UNCHANGED monitorVars
    /\ UNCHANGED botVars
    /\ UNCHANGED mailVars
    /\ UNCHANGED bodyVars

\* save_user_config entered while another call's write is still in progress.
save_user_config_Reentrant(user_id, config, config_name) ==
    /\ storePc # "boot"
    /\ calls < MaxCalls
    /\ calls' = calls + 1
    /\ LET name == IF config_name = None
                   THEN (IF config.config_name # "" THEN config.config_name
                         ELSE config.email)
                   ELSE config_name
           stored == [config EXCEPT !.config_name = name]
           inner == IF DictHas(user_configs, user_id)
                    THEN DictGet(user_configs, user_id) ELSE EmptyMap
       IN /\ user_configs' = DictPut(user_configs, user_id, MapPut(inner, name, stored))
          /\ op' = OpRecord("save", user_id, name, stored,
                            Cardinality(DOMAIN inner), "pending")
          /\ BeginSaveToFile(user_configs')
    /\ live_before' = config_file
    /\ UNCHANGED faults
    /\ UNCHANGED restoreVars
    /\ UNCHANGED monitorVars
    /\ UNCHANGED botVars
    /\ UNCHANGED mailVars
    /\ UNCHANGED bodyVars

\* ConfigManager.save_user_config(user_id, config, config_name)
save_user_config(user_id, config, config_name) ==
    /\ storePc = "ready"
    /\ calls < MaxCalls
    /\ calls' = calls + 1
    /\ LET name == IF config_name = None
                   THEN (IF config.config_name # "" THEN config.config_name
                         ELSE config.email)
                   ELSE config_name
           stored == [config EXCEPT !.config_name = name]
           inner == IF DictHas(user_configs, user_id)
                    THEN DictGet(user_configs, user_id) ELSE EmptyMap
       IN /\ user_configs' = DictPut(user_configs, user_id, MapPut(inner, name, stored))
          /\ op' = OpRecord("save", user_id, name, stored,
                            Cardinality(DOMAIN inner), "pending")
          /\ BeginSaveToFile(user_configs')
    /\ live_before' = config_file
    /\ UNCHANGED faults
    /\ UNCHANGED restoreVars
    /\ UNCHANGED monitorVars
    /\ UNCHANGED botVars
    /\ UNCHANGED mailVars
    /\ UNCHANGED bodyVars

SaveUserConfig ==
    \E user_id \in Owners, call \in SaveCalls :
        save_user_config(user_id, call[1], call[2])

\* RemoveConfig without the removal of an owner entry that became empty.
RemoveConfig_KeepsEmpty(reg, user_id, config_name) ==
    DictPut(reg, user_id, MapDel(DictGet(reg, user_id), config_name))

\* delete_user_config, lines 243-250: drop one named config, and the owner
\* entry with it when that was the owner's last config.
RemoveConfig(reg, user_id, config_name) ==
    LET inner == MapDel(DictGet(reg, user_id), config_name)
    IN IF DOMAIN inner = {} THEN DictDel(reg, user_id)
       ELSE DictPut(reg, user_id, inner)

\* ConfigManager.delete_user_config(user_id, config_name)
delete_user_config(user_id, config_name) ==
    /\ storePc = "ready"
    /\ calls < MaxCalls
    /\ calls' = calls + 1
    /\ live_before' = config_file
    /\ LET had == Cardinality(list_user_config_names(user_configs, user_id))
           byName == config_name # None /\ config_name # ""
           found == IF byName
                    THEN config_name \in list_user_config_names(user_configs, user_id)
                    ELSE DictHas(user_configs, user_id)
       IN IF DictHas(user_configs, user_id) /\ found
          THEN /\ user_configs' = IF byName
                                  THEN RemoveConfig(user_configs, user_id, config_name)
                                  ELSE DictDel(user_configs, user_id)
               /\ op' = OpRecord("delete", user_id, config_name, NoConfig, had, "pending")
               /\ BeginSaveToFile(user_configs')
          ELSE /\ op' = OpRecord("delete", user_id, config_name, NoConfig, had, "n/a")
               /\ result' = FALSE
               /\ storePc' = "ready"
               /\ UNCHANGED <<user_configs, config_file, temp_file, data_to_save>>
    /\ UNCHANGED faults
    /\ UNCHANGED restoreVars
    /\ UNCHANGED monitorVars
    /\ UNCHANGED botVars
    /\ UNCHANGED mailVars
    /\ UNCHANGED bodyVars

DeleteUserConfig ==
    \E user_id \in Owners, config_name \in CallNames \cup {"a@b.com", None} :
        delete_user_config(user_id, config_name)

\* ---- _save_to_file: the write steps ----


\* What the call in op returns once its _save_to_file run has returned saved:
\* save and delete return it; _load_configs ignores it, so the loader returns
\* None and restore_configs returns True.
ReturnAfterWrite(saved) ==
    CASE op.kind = "migrate" -> None
      [] op.kind = "restore" -> TRUE
      [] OTHER -> saved

\* SaveToFileFails with the failure swallowed: the call returns as after a
\* completed write.
SaveToFileFails_ReportsSuccess ==
    /\ faults < MaxFaults
    /\ faults' = faults + 1
    /\ op' = [op EXCEPT !.written = "no"]
    /\ result' = ReturnAfterWrite(TRUE)
    /\ storePc' = "ready"

\* The except branch of _save_to_file: the call that ran it gets False
\* (the loader ignores it).
SaveToFileFails ==
    /\ faults < MaxFaults
    /\ faults' = faults + 1
    /\ op' = [op EXCEPT !.written = "no"]
    /\ result' = ReturnAfterWrite(FALSE)
    /\ storePc' = "ready"

\* OpenTemp with the live file itself opened for writing (no temporary file).
OpenTemp_InPlace ==
    /\ storePc = "open_temp"
    /\ \/ /\ config_file' = PartialFile
          /\ storePc' = "dump"
          /\ UNCHANGED <<op, result, faults>>
       \/ /\ SaveToFileFails
          /\ UNCHANGED config_file
    /\ UNCHANGED <<user_configs, temp_file, data_to_save, live_before, calls>>
    /\ UNCHANGED restoreVars
    /\ UNCHANGED monitorVars
    /\ UNCHANGED botVars
    /\ UNCHANGED mailVars
    /\ UNCHANGED bodyVars

\* mkdir, then open(temp_file, 'w'): the temporary file is created empty.
OpenTemp ==
    /\ storePc = "open_temp"
    /\ \/ /\ temp_file' = PartialFile
          /\ storePc' = "dump"
          /\ UNCHANGED <<op, result, faults>>
       \/ /\ SaveToFileFails
          /\ UNCHANGED temp_file
    /\ UNCHANGED <<user_configs, config_file, data_to_save, live_before, calls>>
    /\ UNCHANGED restoreVars
    /\ UNCHANGED monitorVars
    /\ UNCHANGED botVars
    /\ UNCHANGED mailVars
    /\ UNCHANGED bodyVars

\* json.dump into the temporary file and close.
Dump ==
    /\ storePc = "dump"
    /\ \/ /\ temp_file' = CompleteFile(data_to_save)
          /\ storePc' = "replace"
          /\ UNCHANGED <<op, result, faults>>
       \/ /\ SaveToFileFails
          /\ UNCHANGED temp_file
    /\ UNCHANGED <<user_configs, config_file, data_to_save, live_before, calls>>
    /\ UNCHANGED restoreVars
    /\ UNCHANGED monitorVars
    /\ UNCHANGED botVars
    /\ UNCHANGED mailVars
    /\ UNCHANGED bodyVars

\* temp_file.replace(config_file), then return True.
Replace ==
    /\ storePc = "replace"
    /\ \/ /\ config_file' = temp_file
          /\ temp_file' = NoFile
          /\ op' = [op EXCEPT !.written = "yes"]
          /\ result' = ReturnAfterWrite(TRUE)
          /\ storePc' = "ready"
          /\ UNCHANGED faults
       \/ /\ SaveToFileFails
          /\ UNCHANGED <<config_file, temp_file>>
    /\ UNCHANGED <<user_configs, data_to_save, live_before, calls>>
    /\ UNCHANGED restoreVars
    /\ UNCHANGED monitorVars
    /\ UNCHANGED botVars
    /\ UNCHANGED mailVars
    /\ UNCHANGED bodyVars

\* The process dies at any point and is started again: memory is lost, the
\* files stay as they are; data_to_save and live_before keep describing the
\* write that was interrupted.
Crash ==
    /\ storePc # "boot"
    /\ faults < MaxFaults
    /\ faults' = faults + 1
    /\ user_configs' = <<>>
    /\ storePc' = "boot"
    /\ op' = [op EXCEPT !.kind = "crashed"]
    /\ result' = None
    /\ UNCHANGED <<config_file, temp_file, data_to_save, live_before, calls>>
    /\ UNCHANGED restoreVars
    /\ UNCHANGED monitorVars
    /\ UNCHANGED botVars
    /\ UNCHANGED mailVars
    /\ UNCHANGED bodyVars

\* ------------------------------------------------------------------------
\* Specification of the store
\* ------------------------------------------------------------------------

StoreInit ==
    /\ user_configs = <<>>
    /\ config_file \in InitialFiles
    /\ temp_file = NoFile
    /\ data_to_save = <<>>
    /\ storePc = "boot"
    /\ op = NoOp
    /\ result = None
    /\ live_before = config_file
    /\ calls = 0
    /\ faults = 0
    /\ current_backup = NoFile
    /\ backup_file = NoFile

StoreNext ==
    \/ LoadConfigs
    \/ SaveUserConfig
    \/ DeleteUserConfig
    \/ OpenTemp
    \/ Dump
    \/ Replace
    \/ Crash

\* The process starts: an unused monitor, and the store about to load its file.
StoreStart ==
    StoreInit /\ MonitorInit /\ configs = <<"a@b.com", "c@d.org">> /\ BotIdle /\ MailIdle /\ BodyIdle

StoreSpec == StoreStart /\ [][StoreNext]_vars

\* ------------------------------------------------------------------------
\* restore_configs
\* ------------------------------------------------------------------------

\* Records of a nested (new format) document: a record as _save_to_file writes
\* it, one whose credential text is no token of the manager's key, and one
\* that lacks a required field.
StoredGood == EncryptDict(EmailConfig("a@b.com", StrPw, "work", NoTime))

StoredGarbled ==
    [EncryptDict(EmailConfig("a@b.com", StrPw, "spare", NoTime))
        EXCEPT !.password = <<"str", "garbage">>]

StoredMalformed == [host |-> "imap", password |-> <<"token", "pw">>]

\* Nested documents a backup file may hold.
NestedDocs ==
    {<<<<"42", MapPut(EmptyMap, "work", StoredGood)>>>>,
     <<<<"42", MapPut(MapPut(EmptyMap, "spare", StoredGarbled), "work", StoredGood)>>>>,
     <<<<"42", MapPut(EmptyMap, "spare", StoredGarbled)>>,
       <<"7", MapPut(EmptyMap, "work", StoredGood)>>>>,
     <<<<"42", MapPut(MapPut(EmptyMap, "spare", StoredMalformed), "work", StoredGood)>>>>,
     <<<<"42", MapPut(MapPut(EmptyMap, "host", StoredGood), "work", StoredGood)>>>>,
     <<<<"42", MapPut(EmptyMap, "spare", StoredMalformed)>>,
       <<"7", MapPut(EmptyMap, "work", StoredGood)>>>>}

\* The files restore_configs may be pointed at: none, a nested document, a
\* legacy document.
BackupFiles ==
    {NoFile} \cup {CompleteFile(d) : d \in NestedDocs}
             \cup {CompleteFile(<<<<"42", LegacyToken>>>>)}

\* The registry after _load_configs() has run on file f without the
\* user_configs.clear() before it.
RestoredRegistry_NoClear(reg, f) ==
    IF ~f.exists \/ ~f.complete THEN reg
    ELSE IF _is_old_format(f.data) THEN _migrate_from_old_format(reg, f.data)
    ELSE _load_new_format(reg, f.data)

\* restore_configs, lines 566-568: user_configs.clear(), then _load_configs()
\* on the live file f.
RestoredRegistry(reg, f) == LoadedRegistry(f)

\* ConfigManager.restore_configs(backup_path), backup being the content of the
\* file at backup_path. The live file is first copied to its .backup sibling,
\* then shutil.copy2 writes the backup over the live file; a copy that raises
\* part-way leaves the live file cut short and the call returns False. When
\* the restored document is of the old format, _load_configs migrates it and
\* runs _save_to_file, whose result the call ignores.
restore_configs(backup) ==
    /\ storePc = "ready"
    /\ calls < MaxCalls
    /\ calls' = calls + 1
    /\ live_before' = config_file
    /\ backup_file' = backup
    /\ IF ~backup.exists
       THEN /\ op' = OpRecord("restore", 0, "", NoConfig, 0, "n/a")
            /\ result' = FALSE
            /\ UNCHANGED <<user_configs, config_file, temp_file, data_to_save,
                           storePc, faults, current_backup>>
       ELSE /\ current_backup' = IF config_file.exists THEN config_file
                                 ELSE current_backup
            /\ \/ /\ config_file' = backup
                  /\ user_configs' = RestoredRegistry(user_configs, config_file')
                  /\ IF _is_old_format(backup.data)
                     THEN /\ op' = OpRecord("restore", 0, "", NoConfig, 0, "pending")
                          /\ data_to_save' = Serialize(user_configs')
                          /\ storePc' = "open_temp"
                          /\ result' = None
                     ELSE /\ op' = OpRecord("restore", 0, "", NoConfig, 0, "n/a")
                          /\ result' = TRUE
                          /\ UNCHANGED <<data_to_save, storePc>>
                  /\ UNCHANGED <<temp_file, faults>>
               \/ /\ faults < MaxFaults
                  /\ faults' = faults + 1
                  /\ config_file' = PartialFile
                  /\ op' = OpRecord("restore", 0, "", NoConfig, 0, "n/a")
                  /\ result' = FALSE
                  /\ UNCHANGED <<user_configs, temp_file, data_to_save, storePc>>
    /\ UNCHANGED monitorVars
    /\ UNCHANGED botVars
    /\ UNCHANGED mailVars
    /\ UNCHANGED bodyVars

RestoreConfigs == \E backup \in BackupFiles : restore_configs(backup)

\* ------------------------------------------------------------------------
\* Specification of the store with restore_configs
\* ------------------------------------------------------------------------

RestoreNext ==
    \/ LoadConfigs
    \/ RestoreConfigs
    \/ OpenTemp
    \/ Dump
    \/ Replace
    \/ Crash

\* The process starts on one of the initial files, as in StoreStart.
RestoreStart == StoreStart

RestoreSpec == RestoreStart /\ [][RestoreNext]_vars

\* ------------------------------------------------------------------------
\* Specification of the store started on a nested document
\* ------------------------------------------------------------------------

\* The process starts on a live file in the nested layout, written by an
\* earlier run or put there by hand.
NestedStart ==
    /\ user_configs = <<>>
    /\ config_file \in {CompleteFile(d) : d \in NestedDocs}
    /\ temp_file = NoFile
    /\ data_to_save = <<>>
    /\ storePc = "boot"
    /\ op = NoOp
    /\ result = None
    /\ live_before = config_file
    /\ calls = 0
    /\ faults = 0
    /\ current_backup = NoFile
    /\ backup_file = NoFile
    /\ MonitorInit
    /\ configs = <<"a@b.com", "c@d.org">>
    /\ BotIdle
    /\ MailIdle
    /\ BodyIdle

NestedNext ==
    \/ LoadConfigs
    \/ SaveUserConfig
    \/ DeleteUserConfig
    \/ OpenTemp
    \/ Dump
    \/ Replace
    \/ Crash

NestedSpec == NestedStart /\ [][NestedNext]_vars

\* ------------------------------------------------------------------------
\* Claims about the monitor (checked under Spec)
\* ------------------------------------------------------------------------

\* C1: once an account's failure counter has reached max_errors, no later step
\* of the polling task is inside a _check_emails_for_config call for that
\* account: no probe, connect, login, select, search or fetch is pending or
\* performed for it; every later call returns at the circuit-breaker test.
C1_CircuitOpenNoNetwork ==
    \A a \in Accounts :
        <<"tripped", a>> \in observed =>
            ~(cur = a /\ pc \in NetworkPcs \cup {"msgs", "notify"})

\* C1 witness: an account whose counter reached max_errors has since been
\* visited by a poll cycle, and that call returned at the circuit-breaker test.
C1_Witness ==
    \E a \in Accounts :
        /\ <<"tripped", a>> \in observed
        /\ <<"skipped", a>> \in observed
        /\ error_counts[a] = max_errors

\* C2: for every account and message id, bot.send_message is invoked at most
\* once over the whole life of the monitor, however many searches return the id.
C2_NotifiedAtMostOnce ==
    \A a \in Accounts : \A m \in MsgIds : notifyCount[a][m] <= 1

\* C2 witness: a later search returned an id that was already notified, and
\* _process_message returned at the dedup test.
C2_Witness ==
    /\ pc = "msgs"
    /\ msgOutcome[2] = "already"
    /\ notifyCount[cur][msgOutcome[1]] = 1

\* The _connect call of account cur returns False in this step.
ConnectReturnsFalse ==
    /\ pc \in {"open", "hello", "login", "select"}
    /\ pc' = "next"

\* C8 (as claimed): every _connect call that returns False has incremented the
\* account's failure counter by one, whichever step failed.
C8_EveryFailureCounted ==
    [][ConnectReturnsFalse => error_counts'[cur] = error_counts[cur] + 1]_vars

\* C9 (as claimed): after every _connect call that returns False the account
\* holds no handle (imap_clients[account] is None).
C9_FailureReleasesHandle ==
    [][ConnectReturnsFalse => imap_clients'[cur] = None]_vars

\* C10: a step lowers an account's failure counter only when it is the folder
\* selection answering OK on a handle that has completed hello and login in
\* the same _connect call, and it then sets the counter to 0.
C10_ResetOnlyOnFullConnect ==
    [][\A a \in Accounts :
          error_counts'[a] < error_counts[a] =>
              /\ pc = "select"
              /\ cur = a
              /\ imap_clients[a] = "auth"
              /\ imap_clients'[a] = "selected"
              /\ error_counts'[a] = 0]_vars

\* C10 witness: an account that had failures holds an Active session opened by
\* a full connect, with its counter back at 0.
C10_Witness ==
    \E a \in Accounts :
        /\ <<"reset", a>> \in observed
        /\ error_counts[a] = 0
        /\ imap_clients[a] = "selected"
        /\ cur = a
        /\ pc = "search"

\* C11: an account whose failure counter is at or above max_errors stays so for
\* the rest of the monitor's life: from such a state no step changes its
\* counter, it holds no handle and no step gives it one, and no step enters a
\* probe, connect, login, select, search or fetch for it, so every later cycle
\* skips it.
C11_CircuitOpenForever ==
    [][\A a \in Accounts :
          error_counts[a] >= max_errors =>
              /\ error_counts'[a] = error_counts[a]
              /\ imap_clients[a] = None
              /\ imap_clients'[a] = None
              /\ ~(cur' = a /\ pc' \in NetworkPcs)]_vars

\* C11 witness: a later pass reaches an account that an earlier pass already
\* skipped; its counter is still at max_errors.
C11_Witness ==
    /\ pc = "next"
    /\ todo # <<>>
    /\ <<"skipped", configs[Head(todo)]>> \in observed
    /\ error_counts[configs[Head(todo)]] >= max_errors
    /\ imap_clients[configs[Head(todo)]] = None

\* String filter f, when set, occurs in s with case ignored.
SubstringIgnoringCase(f, s) ==
    f = <<>> \/ \E i \in 1..Len(s) :
                   /\ i + Len(f) - 1 <= Len(s)
                   /\ \A j \in 1..Len(f) : Lower(s[i + j - 1]) = Lower(f[j])

\* Every filter that is set in config passes on message msg.
EverySetFilterPasses(msg, config) ==
    /\ SubstringIgnoringCase(config.filter_sender, msg.sender)
    /\ SubstringIgnoringCase(config.filter_subject, msg.subject)
    /\ config.filter_has_attachments = "True" => msg.has_attachments
    /\ config.filter_has_attachments = "False" => ~msg.has_attachments

\* Filter settings a configuration may have.
FilterSettings ==
    [filter_sender : {<<>>, <<"A", "b">>, <<"b">>},
     filter_subject : {<<>>, <<"b">>, <<"B", "a">>},
     filter_has_attachments : {"None", "True", "False"}]

\* The _process_message call for account cur and id msgOutcome[1] has just
\* ended in one of the given ways.
MessageEnded(ways) == pc = "msgs" /\ msgOutcome[2] \in ways

\* C12 (as claimed): for every id returned by the search, not yet processed and
\* fetched successfully (the server answered the fetch with OK), send_message
\* has been invoked exactly once when every set filter passes on the message,
\* and zero times otherwise.
C12_FetchedNotifiedIffFiltersPass ==
    MessageEnded({"parse_raise", "filtered", "notified", "send_failed"}) =>
        notifyCount[cur][msgOutcome[1]] =
            IF EverySetFilterPasses(raw_email, Config(cfg)) THEN 1 ELSE 0

\* C12 (amended): for every id returned by the search, not yet processed,
\* fetched and parsed successfully, send_message has been invoked exactly once,
\* with the account's target_chat_id, when every set filter passes on the
\* message, and zero times otherwise; it is about to be invoked only for a
\* message on which every set filter passes; and _should_process_email gives
\* the claimed verdict for every filter setting.
C12_ParsedNotifiedIffFiltersPass ==
    /\ MessageEnded({"filtered", "notified", "send_failed"}) =>
          /\ notifyCount[cur][msgOutcome[1]] =
                 IF EverySetFilterPasses(raw_email, Config(cfg)) THEN 1 ELSE 0
          /\ msgOutcome[2] \in {"notified", "send_failed"} <=>
                 EverySetFilterPasses(raw_email, Config(cfg))
    /\ pc = "notify" =>
          /\ EverySetFilterPasses(raw_email, Config(cfg))
          /\ notifyCount[cur][Head(message_ids)] = 0
    /\ \A i \in 1..Len(configs) : \A j \in 1..Len(configs) :
          <<"sent", i, Config(j).target_chat_id>> \in observed => i = j
    /\ (pc = "idle" /\ observed = {} /\ processed_messages = [a \in Accounts |-> {}]) =>
          \A f \in FilterSettings : \A msg \in Messages :
              _should_process_email(msg, f) <=> EverySetFilterPasses(msg, f)

\* C12 witness: a message whose sender matches the sender filter only when case
\* is ignored has been notified once, to the account's target.
C12_Witness ==
    /\ MessageEnded({"notified"})
    /\ cfg = 1
    /\ raw_email.sender = <<"a", "B">>
    /\ Config(cfg).filter_sender = <<"A", "b">>
    /\ notifyCount[cur][msgOutcome[1]] = 1
    /\ <<"sent", cfg, Config(cfg).target_chat_id>> \in observed

\* C13: an id that was fetched and evaluated against the filters is in the
\* account's processed set when its _process_message call ends, whether the
\* filters rejected it, the notification was delivered or the dispatch failed;
\* the processed set never loses an id; and no fetch is started, nor a
\* notification pending, for an id that is in the processed set.
C13_EvaluatedIsProcessed ==
    /\ [](/\ MessageEnded({"filtered", "notified", "send_failed"}) =>
                msgOutcome[1] \in processed_messages[cur]
          /\ pc \in {"fetch", "notify"} =>
                Head(message_ids) \notin processed_messages[cur])
    /\ [][\A a \in Accounts : processed_messages[a] \subseteq processed_messages'[a]]_vars

\* C13 witness: the dispatch of a notification failed and the id is in the
\* processed set all the same.
C13_Witness ==
    /\ MessageEnded({"send_failed"})
    /\ msgOutcome[1] \in processed_messages[cur]
    /\ notifyCount[cur][msgOutcome[1]] = 1

\* C14 (as claimed): when parsing a fetched message fails, its id is in the
\* account's processed set when the _process_message call ends.
C14_ParseFailureIsProcessed ==
    MessageEnded({"parse_raise"}) => msgOutcome[1] \in processed_messages[cur]

\* The ways a _process_message call ends on a fetch or parse failure.
FetchFailures == {"fetch_no", "fetch_raise", "parse_raise"}

\* C15: a step that leaves the fetch of an id (a fetch answered NO, a fetch or
\* a parse that raised, or any other end) stays in the same
\* _check_emails_for_config call, moves on to the remaining ids, and changes
\* neither a failure counter nor a session; and while ids remain, the call
\* does nothing but process the next one.
C15_MessageFailureIsolated ==
    [][/\ pc = "fetch" =>
            /\ pc' \in {"msgs", "notify"}
            /\ cur' = cur /\ todo' = todo
            /\ error_counts' = error_counts
            /\ imap_clients' = imap_clients
            /\ pc' = "msgs" => message_ids' = Tail(message_ids)
       /\ (pc = "msgs" /\ message_ids # <<>>) =>
            /\ pc' \in {"msgs", "fetch"}
            /\ cur' = cur
            /\ message_ids' \in {message_ids, Tail(message_ids)}]_vars

\* C15 witness: after a fetch or parse failure on one id, the same call is
\* fetching another id on the same session.
C15_Witness ==
    /\ pc = "fetch"
    /\ msgOutcome[2] \in FetchFailures
    /\ Head(message_ids) # msgOutcome[1]
    /\ imap_clients[cur] = "selected"

\* In this step the _check_emails_for_config call of configuration cfg ends on
\* a connection, authentication, folder-selection or search failure.
CycleFailure ==
    /\ pc \in {"open", "hello", "login", "select", "search"}
    /\ pc' = "next"

\* C16 (as claimed): a connection, authentication, folder-selection or search
\* failure in the cycle of one configuration leaves the failure counter, the
\* session and the processed set of every other configuration of the monitor
\* unchanged, and the configurations still to visit in the pass stay to visit.
C16_FailureIsLocal ==
    [][CycleFailure =>
          /\ \A j \in 1..Len(configs) :
                j # cfg =>
                    /\ error_counts'[configs[j]] = error_counts[configs[j]]
                    /\ imap_clients'[configs[j]] = imap_clients[configs[j]]
                    /\ processed_messages'[configs[j]] = processed_messages[configs[j]]
          /\ todo' = todo]_vars

\* ------------------------------------------------------------------------
\* Claims about the store (checked under StoreSpec)
\* ------------------------------------------------------------------------

\* Every credential field of the nested document d is an encrypted token.
AllCredentialsEncrypted(d) ==
    \A i \in 1..Len(d) : \A n \in DOMAIN d[i][2] : d[i][2][n].password[1] = "token"

\* C3 (as claimed): in every document _save_to_file writes (the finished
\* temporary file, and the live file it replaced), every account's credential
\* field is an encrypted token, never the plaintext secret.
C3_StoredCredentialEncrypted ==
    /\ (temp_file.exists /\ temp_file.complete) => AllCredentialsEncrypted(temp_file.data)
    /\ op.written = "yes" => AllCredentialsEncrypted(config_file.data)

\* C4: at every point of a save or delete call, a crash or I/O error part-way
\* included, the live file is never partial and holds either the complete
\* document it held when the call began or the complete new document; and a
\* call whose write failed has returned False.
C4_AtomicWrite ==
    /\ config_file.exists => config_file.complete
    /\ config_file = live_before \/ config_file = CompleteFile(data_to_save)
    /\ (storePc = "ready" /\ op.kind \in {"save", "delete"} /\ op.written = "no")
           => result = FALSE

\* C4 witness: a save or delete whose write failed after the temporary file was
\* opened: the temporary file is partial, the live file is the previous
\* document and the call returned False.
C4_Witness ==
    /\ storePc = "ready"
    /\ op.kind \in {"save", "delete"}
    /\ op.written = "no"
    /\ temp_file = PartialFile
    /\ config_file = live_before
    /\ config_file.exists
    /\ result = FALSE

\* C5 (as claimed): after save_user_config(owner, C, name) has returned True,
\* loading the live file into a fresh registry yields under (owner, name) a
\* configuration equal to C in every field, the decrypted credential included.
C5_SaveThenLoadRoundTrip ==
    (storePc = "ready" /\ op.kind = "save" /\ result = TRUE) =>
        get_user_config(LoadedRegistry(config_file), op.owner, op.name) = op.config

\* This step is the call delete_user_config(o, n).
DeleteCalled(o, n) ==
    /\ storePc = "ready"
    /\ calls' = calls + 1
    /\ op'.kind = "delete"
    /\ op'.owner = o
    /\ op'.name = n

\* C6: deleting by name the only configuration an owner has removes the owner
\* key from the registry; list_user_config_names(owner) is then empty and the
\* registry has no entry, not even an empty map, for the owner.
C6_LastDeleteRemovesOwner ==
    [][\A o \in Owners : \A n \in CallNames \cup Emails :
          (DeleteCalled(o, n) /\ list_user_config_names(user_configs, o) = {n}) =>
              /\ ~DictHas(user_configs', o)
              /\ list_user_config_names(user_configs', o) = {}]_vars

\* C6 witness: a delete by name of an owner's single configuration has run and
\* the owner has no entry.
C6_Witness ==
    /\ op.kind = "delete"
    /\ op.name \in CallNames \cup Emails
    /\ op.had = 1
    /\ op.written # "n/a"
    /\ ~DictHas(user_configs, op.owner)

\* The load of a legacy document (held in live_before) has returned.
MigrationDone == storePc = "ready" /\ op.kind = "migrate"

ExpectedMigratedName(d) ==
    IF "config_name" \in DOMAIN d /\ d.config_name \notin {"", "default"}
    THEN d.config_name ELSE d.email

BotOwner == 42

\* The registry of the bot's ConfigManager: one configuration of BotOwner,
\* saved by process_target_chat with no last_check_time.
BotRegistry ==
    DictPut(<<>>, BotOwner,
        MapPut(EmptyMap, "work", EmailConfig("a@b.com", StrPw, "work", NoTime)))

\* The names of BotOwner's configurations; get_user_configs_list hands the
\* registry's own EmailConfig objects to the monitor.
BotNames == list_user_config_names(user_configs, BotOwner)

\* last_check_time of a configuration of BotOwner, in registry reg.
LastCheckTime(reg, n) == get_user_config(reg, BotOwner, n).last_check_time

\* Registry reg after config.last_check_time = datetime.now(timezone.utc) for
\* the configurations named in names.
SetLastCheckTime(reg, names, t) ==
    IF ~DictHas(reg, BotOwner) THEN reg
    ELSE LET inner == DictGet(reg, BotOwner)
         IN DictPut(reg, BotOwner,
                [n \in DOMAIN inner |->
                    IF n \in names
                    THEN [inner[n] EXCEPT !.last_check_time = Dt(t)]
                    ELSE inner[n]])

storeRest == <<config_file, temp_file, data_to_save, storePc, op, result,
               live_before, calls, faults, restoreVars>>

\* datetime.now(timezone.utc) is read when read holds: the reading is at or
\* after the latest one.
ReadClock(read) ==
    IF read THEN now' \in now..MaxTime ELSE now' = now


\* EmailMonitor.__init__ that would stamp every configuration with the start of
\* time, set or not.
EmailMonitorInit_Restamps(reg) ==
    SetLastCheckTime(reg, BotNames, 0)

\* EmailMonitor.__init__ on the registry's configurations: a configuration
\* without last_check_time gets the current time.
EmailMonitorInit(reg) ==
    SetLastCheckTime(reg, {n \in BotNames : LastCheckTime(reg, n) = NoTime}, now')

\* start_monitoring_handler up to its await of test_all_connections.
start_monitoring_handler ==
    /\ BotOwner \notin running_users
    /\ BotNames # {}
    /\ monitor_count < MaxStarts
    /\ monitor_count' = monitor_count + 1
    /\ ReadClock(\E n \in BotNames : LastCheckTime(user_configs, n) = NoTime)
    /\ user_configs' = EmailMonitorInit(user_configs)
    /\ start_handler' = [start_handler EXCEPT ![monitor_count + 1] = "testing"]
    /\ UNCHANGED <<running_users, active_monitors, tasks, sessions, stopping>>
    /\ UNCHANGED storeRest
    /\ UNCHANGED mailVars
    /\ UNCHANGED bodyVars
    /\ UNCHANGED monitorVars

\* start_monitoring_handler after test_all_connections returned: with a failed
\* connection it answers and returns, otherwise it registers the monitor and
\* creates the polling task.
start_monitoring_resume(k) ==
    /\ start_handler[k] = "testing"
    /\ start_handler' = [start_handler EXCEPT ![k] = "done"]
    /\ \E connected \in BOOLEAN :
          IF connected
          THEN /\ active_monitors' = k
               /\ running_users' = running_users \cup {BotOwner}
               /\ tasks' = [tasks EXCEPT ![k] = [NoTask EXCEPT !.pc = "created"]]
          ELSE UNCHANGED <<active_monitors, running_users, tasks>>
    /\ UNCHANGED <<monitor_count, sessions, stopping, now>>
    /\ UNCHANGED <<user_configs, storeRest>>
    /\ UNCHANGED mailVars
    /\ UNCHANGED bodyVars
    /\ UNCHANGED monitorVars


\* The task of monitor k in its finally block: of its data only the history of
\* how the loop ended is kept.
Ending(k) == [NoTask EXCEPT !.errored = tasks[k].errored,
                            !.attempts = tasks[k].attempts]

\* The finally block of _run_user_monitoring, reached by the loop's exit: the
\* monitor registered now is cleaned up and its entry deleted.  cleanup()
\* suspends only when it has a session to log out.
Finally(k) ==
    IF active_monitors # 0 /\ sessions[active_monitors] = "open"
    THEN /\ tasks' = [tasks EXCEPT ![k] = [Ending(k) EXCEPT !.pc = "cleanup",
                                                         !.target = active_monitors]]
         /\ UNCHANGED active_monitors
    ELSE /\ tasks' = [tasks EXCEPT ![k] = DoneTask]
         /\ active_monitors' = 0

\* The test of the while loop of _run_user_monitoring, by the task of monitor
\* k whose local variable monitor is m.
LoopTest(k, m) ==
    IF BotOwner \in running_users
    THEN /\ tasks' = [tasks EXCEPT ![k].pc = "cycle", ![k].monitor = m,
                                   ![k].advanced = {}]
         /\ UNCHANGED active_monitors
    ELSE Finally(k)

\* _run_user_monitoring from its start to its first await.
_run_user_monitoring(k) ==
    /\ tasks[k].pc = "created"
    /\ IF active_monitors = 0
       THEN /\ tasks' = [tasks EXCEPT ![k] = DoneTask]
            /\ UNCHANGED active_monitors
       ELSE LoopTest(k, active_monitors)
    /\ UNCHANGED <<running_users, monitor_count, start_handler, sessions,
                   stopping, now>>
    /\ UNCHANGED <<user_configs, storeRest>>
    /\ UNCHANGED mailVars
    /\ UNCHANGED bodyVars
    /\ UNCHANGED monitorVars

\* await monitor.check_new_emails() returns: the configurations whose check
\* ran to its end have last_check_time set; the task goes to sleep.
check_new_emails(k) ==
    /\ tasks[k].pc = "cycle"
    /\ \E done \in SUBSET BotNames : \E open \in BOOLEAN :
          /\ done # {} => open
          /\ ReadClock(done # {})
          /\ user_configs' = SetLastCheckTime(user_configs, done, now')
          /\ sessions' = [sessions EXCEPT ![tasks[k].monitor] =
                              IF open THEN "open" ELSE "none"]
          /\ tasks' = [tasks EXCEPT ![k].pc = "sleep", ![k].advanced = done]
    /\ UNCHANGED <<running_users, active_monitors, monitor_count, start_handler,
                   stopping>>
    /\ UNCHANGED storeRest
    /\ UNCHANGED mailVars
    /\ UNCHANGED bodyVars
    /\ UNCHANGED monitorVars

\* await asyncio.sleep(min_interval) returns: the loop tests its condition.
Wake(k) ==
    /\ tasks[k].pc = "sleep"
    /\ LoopTest(k, tasks[k].monitor)
    /\ UNCHANGED <<running_users, monitor_count, start_handler, sessions,
                   stopping, now>>
    /\ UNCHANGED <<user_configs, storeRest>>
    /\ UNCHANGED mailVars
    /\ UNCHANGED bodyVars
    /\ UNCHANGED monitorVars


\* An exception leaves the try block of _run_user_monitoring (out of
\* check_new_emails or of the lines that follow it): the except branch logs it
\* and, the monitor having configurations, awaits one bot.send_message.
loop_raises(k) ==
    /\ tasks[k].pc = "cycle"
    /\ tasks' = [tasks EXCEPT ![k].pc = "notifying", ![k].errored = TRUE,
                              ![k].attempts = @ + 1, ![k].advanced = {}]
    /\ UNCHANGED <<running_users, active_monitors, monitor_count, start_handler,
                   sessions, stopping, now>>
    /\ UNCHANGED <<user_configs, storeRest>>
    /\ UNCHANGED mailVars
    /\ UNCHANGED bodyVars
    /\ UNCHANGED monitorVars

\* bot.send_message of the except branch has returned or raised (the exception
\* is passed over); the finally block takes the owner out of running_users and
\* goes on to the cleanup.
except_resume(k) ==
    /\ tasks[k].pc = "notifying"
    /\ running_users' = running_users \ {BotOwner}
    /\ Finally(k)
    /\ UNCHANGED <<monitor_count, start_handler, sessions, stopping, now>>
    /\ UNCHANGED <<user_configs, storeRest>>
    /\ UNCHANGED mailVars
    /\ UNCHANGED bodyVars
    /\ UNCHANGED monitorVars

\* EmailMonitor.cleanup of monitor m returns: its sessions are logged out,
\* unless a logout raised.
cleanup(m) ==
    \E logged_out \in BOOLEAN :
        sessions' = [sessions EXCEPT ![m] = IF logged_out THEN "none" ELSE @]

\* The task's finally block after its await of cleanup(): del
\* self.active_monitors[user_id].
FinallyResume(k) ==
    /\ tasks[k].pc = "cleanup"
    /\ cleanup(tasks[k].target)
    /\ active_monitors' = 0
    /\ tasks' = [tasks EXCEPT ![k] = DoneTask]
    /\ UNCHANGED <<running_users, monitor_count, start_handler, stopping, now>>
    /\ UNCHANGED <<user_configs, storeRest>>
    /\ UNCHANGED mailVars
    /\ UNCHANGED bodyVars
    /\ UNCHANGED monitorVars

\* stop_monitoring_handler up to its await of cleanup(), or to its end when
\* cleanup() has nothing to log out.
stop_monitoring_handler ==
    /\ BotOwner \in running_users
    /\ running_users' = running_users \ {BotOwner}
    /\ tasks' = [k \in Monitors |->
                    IF tasks[k].pc \in {"created", "cycle", "sleep"}
                    THEN [tasks[k] EXCEPT !.stopped = TRUE] ELSE tasks[k]]
    /\ IF active_monitors # 0 /\ sessions[active_monitors] = "open"
       THEN /\ stopping' = stopping \cup {active_monitors}
            /\ UNCHANGED active_monitors
       ELSE /\ active_monitors' = 0
            /\ UNCHANGED stopping
    /\ UNCHANGED <<monitor_count, start_handler, sessions, now>>
    /\ UNCHANGED <<user_configs, storeRest>>
    /\ UNCHANGED mailVars
    /\ UNCHANGED bodyVars
    /\ UNCHANGED monitorVars

\* stop_monitoring_handler after its await of cleanup(): del
\* self.active_monitors[user_id].
stop_monitoring_resume(m) ==
    /\ m \in stopping
    /\ cleanup(m)
    /\ active_monitors' = 0
    /\ stopping' = stopping \ {m}
    /\ UNCHANGED <<running_users, monitor_count, start_handler, tasks, now>>
    /\ UNCHANGED <<user_configs, storeRest>>
    /\ UNCHANGED mailVars
    /\ UNCHANGED bodyVars
    /\ UNCHANGED monitorVars

BotInit ==
    /\ MonitorInit
    /\ configs = <<"a@b.com", "c@d.org">>
    /\ BotIdle
    /\ MailIdle
    /\ BodyIdle
    /\ user_configs = BotRegistry
    /\ config_file = CompleteFile(Serialize(BotRegistry))
    /\ temp_file = NoFile
    /\ data_to_save = <<>>
    /\ storePc = "ready"
    /\ op = NoOp
    /\ result = None
    /\ live_before = config_file
    /\ calls = 0
    /\ faults = 0
    /\ current_backup = NoFile
    /\ backup_file = NoFile

BotNext ==
    \/ start_monitoring_handler
    \/ \E k \in Monitors : start_monitoring_resume(k)
    \/ \E k \in Monitors : _run_user_monitoring(k)
    \/ \E k \in Monitors : check_new_emails(k)
    \/ \E k \in Monitors : Wake(k)
    \/ \E k \in Monitors : loop_raises(k)
    \/ \E k \in Monitors : except_resume(k)
    \/ \E k \in Monitors : FinallyResume(k)
    \/ stop_monitoring_handler
    \/ \E m \in Monitors : stop_monitoring_resume(m)

BotSpec == BotInit /\ [][BotNext]_vars

\* ------------------------------------------------------------------------
\* Monitoring, the registry and the mailbox: what a poll cycle visits
\* ------------------------------------------------------------------------

\* How far the clock of this specification runs, in instants, and how many
\* instants make a calendar day.
MaxInstant == 2

InstantsPerDay == 2

\* strftime("%d-%b-%Y"): the calendar day of instant t.
Day(t) == t \div InstantsPerDay

\* The account of BotOwner's first configuration, "work"; its mailbox is the
\* one received and seen describe.
MailAccount == "a@b.com"

\* A second configuration BotOwner may add, of another mailbox.
SpareConfig == EmailConfig("c@d.org", StrPw, "spare", NoTime)

\* The name of BotOwner's configuration with address a.
NameOf(a) == IF a = MailAccount THEN "work" ELSE "spare"

\* config.check_interval of BotOwner's configuration with address a.
check_interval(a) == IF a = MailAccount THEN 60 ELSE 30

\* ConfigManager.get_user_configs_list: the owner's configurations in the
\* order of their insertion ("work" was saved first), each given by its address.
get_user_configs_list(reg, user_id) ==
    LET names == SelectSeq(<<"work", "spare">>,
                     LAMBDA n : n \in list_user_config_names(reg, user_id))
    IN [i \in 1..Len(names) |-> get_user_config(reg, user_id, names[i]).email]

\* min(config.check_interval for config in monitor.configs)
min_interval(list) ==
    LET S == {check_interval(list[i]) : i \in 1..Len(list)}
    IN CHOOSE x \in S : \A y \in S : x <= y

\* EmailMonitor._build_search_criteria: UNSEEN, and SINCE the day of
\* last_check_time when that is set.
_build_search_criteria(config) ==
    IF config.last_check_time # NoTime
    THEN <<"UNSEEN", "SINCE", Day(config.last_check_time[2])>>
    ELSE <<"UNSEEN">>

\* The ids the server answers to SEARCH criteria: the messages without \Seen
\* whose day of arrival is the SINCE day or a later one.
SearchResponse(criteria) ==
    {m \in MsgIds :
        /\ received[m] # NotYet
        /\ m \notin seen
        /\ Len(criteria) = 3 => Day(received[m]) >= criteria[3]}

\* The server receives message m for MailAccount.
Arrive(m) ==
    /\ received[m] = NotYet
    /\ received' = [received EXCEPT ![m] = now]
    /\ UNCHANGED <<seen, started_at, polled, slept>>
    /\ UNCHANGED bodyVars
    /\ UNCHANGED monitorVars
    /\ UNCHANGED storeVars
    /\ UNCHANGED botVars

\* Time passes.
Pass ==
    /\ now < MaxInstant
    /\ now' = now + 1
    /\ UNCHANGED <<running_users, active_monitors, monitor_count, start_handler,
                   tasks, sessions, stopping>>
    /\ UNCHANGED monitorVars
    /\ UNCHANGED storeVars
    /\ UNCHANGED mailVars
    /\ UNCHANGED bodyVars

\* /start_monitoring accepted: a new EmailMonitor is built on the list
\* get_user_configs_list returns, with empty per-account dicts; a
\* configuration without last_check_time gets the current time; the owner is
\* running.
StartMonitoring ==
    /\ storePc = "ready"
    /\ BotOwner \notin running_users
    /\ BotNames # {}
    /\ monitor_count < MaxStarts
    /\ monitor_count' = monitor_count + 1
    /\ now' = now
    /\ LET list == get_user_configs_list(user_configs, BotOwner)
           keys == {list[i] : i \in 1..Len(list)}
       IN /\ configs' = list
          /\ processed_messages' = [a \in keys |-> {}]
          /\ imap_clients' = [a \in keys |-> None]
          /\ error_counts' = [a \in keys |-> 0]
    /\ user_configs' = EmailMonitorInit(user_configs)
    /\ running_users' = running_users \cup {BotOwner}
    /\ started_at' = now
    /\ UNCHANGED <<received, seen, polled, slept>>
    /\ UNCHANGED bodyVars
    /\ UNCHANGED <<active_monitors, start_handler, tasks, sessions, stopping>>
    /\ UNCHANGED <<pc, cur, cfg, todo, message_ids, notifyCount, msgOutcome,
                   raw_email, observed>>
    /\ UNCHANGED storeRest

\* /stop_monitoring: the owner leaves the running set.
StopMonitoring ==
    /\ storePc = "ready"
    /\ BotOwner \in running_users
    /\ running_users' = running_users \ {BotOwner}
    /\ UNCHANGED <<active_monitors, monitor_count, start_handler, tasks, sessions,
                   stopping, now>>
    /\ UNCHANGED monitorVars
    /\ UNCHANGED storeVars
    /\ UNCHANGED mailVars
    /\ UNCHANGED bodyVars

\* One pass of the loop of _run_user_monitoring in which every IMAP command
\* succeeds: check_new_emails visits the monitor's configurations in order;
\* for MailAccount the search with the built criteria, then for every id not
\* yet processed the fetch (which sets \Seen) and the notification; each
\* visited configuration gets the current time as last_check_time; then the
\* task sleeps min_interval.
PollCycle ==
    /\ storePc = "ready"
    /\ BotOwner \in running_users
    /\ LET config == get_user_config(user_configs, BotOwner, NameOf(MailAccount))
           ids == SearchResponse(_build_search_criteria(config))
           new == ids \ processed_messages[MailAccount]
       IN /\ notifyCount' =
                 [notifyCount EXCEPT ![MailAccount] =
                     [m \in MsgIds |-> IF m \in new THEN @[m] + 1 ELSE @[m]]]
          /\ processed_messages' =
                 [processed_messages EXCEPT ![MailAccount] = @ \cup new]
          /\ seen' = seen \cup new
    /\ now' = now
    /\ user_configs' = SetLastCheckTime(user_configs,
                           {NameOf(configs[i]) : i \in 1..Len(configs)}, now)
    /\ polled' = configs
    /\ slept' = min_interval(configs)
    /\ UNCHANGED <<received, started_at>>
    /\ UNCHANGED bodyVars
    /\ UNCHANGED <<running_users, active_monitors, monitor_count, start_handler,
                   tasks, sessions, stopping>>
    /\ UNCHANGED <<configs, imap_clients, error_counts, pc, cur, cfg, todo,
                   message_ids, msgOutcome, raw_email, observed>>
    /\ UNCHANGED storeRest

\* process_target_chat: the owner saves a second configuration.
AddConfig == save_user_config(BotOwner, SpareConfig, "spare")

MailNext ==
    \/ \E m \in MsgIds : Arrive(m)
    \/ Pass
    \/ StartMonitoring
    \/ StopMonitoring
    \/ PollCycle

\* The bot is up with BotOwner's configuration in the registry, monitoring is
\* off and the mailbox is empty.
MailInit == BotInit

MailSpec == MailInit /\ [][MailNext]_vars

\* Monitoring while the owner adds a configuration (the mailbox stays empty
\* and the clock stands still).
CycleNext ==
    \/ StartMonitoring
    \/ StopMonitoring
    \/ PollCycle
    \/ AddConfig
    \/ OpenTemp
    \/ Dump
    \/ Replace

CycleInit == BotInit

CycleSpec == CycleInit /\ [][CycleNext]_vars

\* ------------------------------------------------------------------------
\* Claims about the bot (checked under BotSpec)
\* ------------------------------------------------------------------------

\* C17: for every account, across monitor starts, poll cycles and stops,
\* last_check_time once set never decreases: every step leaves it set, at a
\* value greater than or equal to its previous value.
C17_LastCheckTimeNeverDecreases ==
    [][\A n \in BotNames :
          LastCheckTime(user_configs, n) # NoTime =>
              /\ LastCheckTime(user_configs', n) # NoTime
              /\ LastCheckTime(user_configs', n)[2]
                     >= LastCheckTime(user_configs, n)[2]]_vars

\* A second monitor, started after the first one's loop has exited, has
\* finished a cycle that set the account's last_check_time, which is the
\* latest time of the clock.
C17_Witness ==
    /\ monitor_count >= 2
    /\ tasks[1].pc = "done"
    /\ tasks[2].pc = "sleep"
    /\ "work" \in tasks[2].advanced
    /\ now = MaxTime
    /\ LastCheckTime(user_configs, "work") = Dt(now)

\* C18: once a poll cycle that advanced an account's last_check_time has
\* finished, the live file holds the advanced value, with no save or delete
\* (BotSpec has none) being needed.
C18_AdvancedTimeIsPersisted ==
    \A k \in Monitors :
        tasks[k].pc = "sleep" =>
            \A n \in tasks[k].advanced :
                LastCheckTime(LoadedRegistry(config_file), n)
                    = LastCheckTime(user_configs, n)

\* The polling task of monitor k is performing a poll cycle, or is asleep and
\* will perform one at its wake as things stand.
Polling(k) ==
    \/ tasks[k].pc = "cycle"
    \/ tasks[k].pc = "sleep" /\ BotOwner \in running_users

\* C19: under any interleaving of start and stop requests, at most one
\* polling loop of the owner is performing or will perform poll cycles.
C19_AtMostOnePollingLoop ==
    Cardinality({k \in Monitors : Polling(k)}) <= 1

\* C20: after a stop request has removed the owner from the running set, the
\* polling loop that was running performs no further poll cycle: asleep, it
\* does not start another cycle at its wake, whatever requests arrived before.
C20_StoppedLoopPollsNoMore ==
    [][\A k \in Monitors :
          tasks[k].stopped /\ tasks[k].pc = "sleep" => tasks'[k].pc # "cycle"]_vars

\* No handler of the owner is suspended and every polling task has returned.
BotQuiet ==
    /\ stopping = {}
    /\ \A k \in Monitors :
          /\ start_handler[k] # "testing"
          /\ tasks[k].pc \in {"none", "done"}

\* C21: once a stop for the owner has completed and the owner's polling loop
\* has exited, no monitor of the owner holds an open session.
C21_NoSessionAfterStop ==
    (BotOwner \notin running_users /\ BotQuiet) =>
        \A m \in Monitors : sessions[m] = "none"

\* C22: a polling loop that ends through an unhandled error makes at most one
\* notification attempt and terminates with the owner out of the running set
\* and out of the active monitors.
C22_ErrorEndsMonitoring ==
    [][\A k \in Monitors :
          (tasks[k].errored /\ tasks[k].pc # "done" /\ tasks'[k].pc = "done") =>
              /\ tasks[k].attempts <= 1
              /\ BotOwner \notin running_users'
              /\ active_monitors' = 0]_vars

\* ------------------------------------------------------------------------
\* Further claims about the store (checked under StoreSpec)
\* ------------------------------------------------------------------------

\* Positions inside _save_to_file, after the registry was serialized and before
\* the temporary file has replaced the live file.
WritePcs == {"open_temp", "dump", "replace"}

C24_LiveFileNeverPartial ==
    config_file.exists => config_file.complete

\* A stored record whose credential _decrypt_password cannot decrypt.
Undecryptable(d) ==
    /\ "password" \in DOMAIN d
    /\ Truthy(d.password)
    /\ d.password[1] # "token"

\* restore_configs has returned True after loading a nested document.
LoadedNested ==
    /\ storePc = "ready"
    /\ op.kind = "restore"
    /\ result = TRUE
    /\ backup_file.exists
    /\ ~_is_old_format(backup_file.data)

C26_StoredTextKept ==
    LoadedNested =>
        \A i \in 1..Len(backup_file.data) :
            LET user_id == KeyOwner(backup_file.data[i][1])
                user_data == backup_file.data[i][2]
            IN \A n \in DOMAIN user_data :
                   (Undecryptable(user_data[n]) /\ ~FromDictRaises(user_data[n]))
                       => get_user_config(user_configs, user_id, n).password
                              = user_data[n].password

\* C26 witness: the registry holds a config whose credential is the garbled
\* text of the document, next to one whose credential was decrypted.
C26_Witness ==
    /\ LoadedNested
    /\ get_user_config(user_configs, 42, "spare").password = <<"str", "garbage">>
    /\ get_user_config(user_configs, 7, "work").password = StrPw

C28_OnlyMailAfterStart ==
    [][\A m \in MsgIds :
          notifyCount'[MailAccount][m] > notifyCount[MailAccount][m]
              => received[m] >= started_at]_vars

\* ------------------------------------------------------------------------
\* Further claims about the monitor (checked under Spec)
\* ------------------------------------------------------------------------

\* C29: every step taken for one configuration (marking a message id as
\* processed, opening or dropping its session, counting a failure) leaves the
\* processed set, the session and the failure counter of every other
\* configuration of the monitor unchanged.
C29_StateScopedToAccount ==
    [][\A j \in 1..Len(configs) :
          j # cfg =>
              /\ processed_messages'[configs[j]] = processed_messages[configs[j]]
              /\ imap_clients'[configs[j]] = imap_clients[configs[j]]
              /\ error_counts'[configs[j]] = error_counts[configs[j]]]_vars

\* ------------------------------------------------------------------------
\* Claims about the poll cycle and the registry (checked under CycleSpec)
\* ------------------------------------------------------------------------

\* The addresses of the configurations BotOwner has in the registry.
RegistryAccounts ==
    {get_user_config(user_configs, BotOwner, n).email : n \in BotNames}

\* C30: a poll cycle runs the pipeline once for every account the owner has
\* in the registry at that time, and then sleeps the minimum check interval
\* over those accounts.
C30_CycleCoversRegistry ==
    [][PollCycle =>
          /\ {polled'[i] : i \in 1..Len(polled')} = RegistryAccounts
          /\ Len(polled') = Cardinality(RegistryAccounts)
          /\ slept' = min_interval(get_user_configs_list(user_configs, BotOwner))]_vars

\* ------------------------------------------------------------------------
\* Claims about the session a search runs on (checked under Spec)
\* ------------------------------------------------------------------------

\* C31: whenever _connect has returned True and the search is about to be
\* issued, the handle held for the account is logged in with the folder
\* selected.
C31_SearchOnlyOnActiveSession ==
    pc = "search" => imap_clients[cur] = "selected"

\* ------------------------------------------------------------------------
\* Further claims about the bot (checked under BotSpec)
\* ------------------------------------------------------------------------

\* C32: while a task is inside a poll cycle, no step of another coroutine (a
\* stop request among them) closes the sessions its monitor holds: a session
\* open during the cycle stays open until the cycle completes.
C32_StopLeavesCycleAlone ==
    [][\A k \in Monitors :
          (/\ tasks[k].pc = "cycle"
           /\ tasks'[k].pc = "cycle"
           /\ sessions[tasks[k].monitor] = "open")
              => sessions'[tasks[k].monitor] = "open"]_vars

\* ------------------------------------------------------------------------
\* Claims about last_check_time in a cycle (checked under Spec)
\* ------------------------------------------------------------------------

\* In this step a _check_emails_for_config call returns (or, for a
\* circuit-open account, begins and returns at once).
CheckReturns ==
    /\ pc' = "next"
    /\ pc # "idle"
    /\ pc # "next" \/ cfg' # cfg

\* C33: a _check_emails_for_config call assigns last_check_time exactly when
\* the session was Active, the search returned OK and the loop over the
\* returned ids has finished; a call that ends in any other way (circuit open,
\* failed connect, search not OK, exception) leaves it unassigned.
C33_LastCheckTimeSetOnFullCycle ==
    [][CheckReturns =>
          (<<"advanced", cfg'>> \in observed'
              <=> (/\ pc = "msgs"
                   /\ message_ids = <<>>
                   /\ imap_clients[cur] = "selected"))]_vars

\* C33 witness: in one pass the call of the first configuration failed and the
\* call of the second ran its loop to the end and assigned last_check_time.
C33_Witness ==
    /\ pc = "next"
    /\ cfg = 2
    /\ configs[1] # configs[2]
    /\ <<"advanced", 2>> \in observed
    /\ error_counts[configs[1]] > 0
    /\ processed_messages[configs[2]] # {}

\* ------------------------------------------------------------------------
\* Claims about retried fetches (checked under RetrySpec)
\* ------------------------------------------------------------------------

\* C34: a _process_message call whose fetch is answered NO or raises leaves
\* the processed set as it was; a call for an id whose latest fetch for that
\* configuration failed attempts the fetch again; and a call whose fetch and
\* parse succeed on a message that passes the filters invokes the notification.
C34_FailedFetchIsRetried ==
    [][\A i \in 1..Len(configs) : \A m \in MsgIds :
          _process_message(i, m) =>
              /\ msgOutcome'[2] \in {"fetch_no", "fetch_raise"}
                     => processed_messages' = processed_messages
              /\ <<"fetch_failed", i, m>> \in observed
                     => msgOutcome'[2] # "already"
              /\ (/\ raw_email' # NoEmail
                  /\ msgOutcome'[2] # "parse_raise"
                  /\ _should_process_email(raw_email', Config(i)))
                     => notifyCount'[configs[i]][m] = notifyCount[configs[i]][m] + 1]_vars

\* ------------------------------------------------------------------------
\* Claims about the extracted body (checked under ExtractSpec)
\* ------------------------------------------------------------------------

\* The non-attachment parts of the given content type, in message order.
BodyParts(message, content_type) ==
    SelectSeq(message.parts,
              LAMBDA p : ~p.attachment /\ p.content_type = content_type)

\* The tokens that text taken from an HTML part of the message can hold.
HtmlText(message) ==
    UNION {{t[i] : i \in 1..Len(t)} \ {" "} :
              t \in {_strip_html_tags(BodyParts(message, "text/html")[k].payload) :
                        k \in 1..Len(BodyParts(message, "text/html"))}}

\* C35: for a multipart message with a non-attachment plain-text part, in any
\* order of parts, the extracted body starts with the text of the first such
\* part and holds no text of an HTML part.
C35_PlainPartPreferred ==
    (email_message.is_multipart /\ BodyParts(email_message, "text/plain") # <<>>)
        => LET plain == BodyParts(email_message, "text/plain")[1].payload
           IN /\ SubSeq(body, 1, Len(plain)) = plain
              /\ {body[i] : i \in 1..Len(body)} \cap HtmlText(email_message) = {}

\* ------------------------------------------------------------------------
\* Claims about failed writes of the store (checked under StoreSpec)
\* ------------------------------------------------------------------------

\* C36: when the write of the file fails inside save_user_config or
\* delete_user_config, the call returns False and the registry keeps the
\* mutation the call made: the saved configuration stays registered, the
\* deleted one stays removed.
C36_FailedWriteKeepsMutation ==
    [][(/\ storePc \in WritePcs
        /\ op.kind \in {"save", "delete"}
        /\ op.written = "pending"
        /\ op'.written = "no")
          => /\ result' = FALSE
             /\ user_configs' = user_configs
             /\ op.kind = "save"
                   => get_user_config(user_configs', op.owner, op.name) = op.config
             /\ op.kind = "delete"
                   => IF op.name # None /\ op.name # ""
                      THEN op.name \notin list_user_config_names(user_configs', op.owner)
                      ELSE ~DictHas(user_configs', op.owner)]_vars

\* C36 witness: a save whose write failed has returned False, the saved
\* configuration is in the registry and the live file is the one from before
\* the call, without it.
C36_Witness ==
    /\ storePc = "ready"
    /\ op.kind = "save"
    /\ op.written = "no"
    /\ result = FALSE
    /\ get_user_config(user_configs, op.owner, op.name) = op.config
    /\ config_file = live_before
    /\ LoadedRegistry(config_file) # user_configs

\* C37: every document _save_to_file has written is classified as the nested
\* format by _is_old_format when it is loaded next, whatever the names of the
\* configurations in it ("host" included).
C37_WrittenDocumentIsNested ==
    (storePc = "ready" /\ op.written = "yes")
        => ~_is_old_format(config_file.data)

\* ------------------------------------------------------------------------
\* Further claims about the bot (checked under BotSpec)
\* ------------------------------------------------------------------------

\* No start or stop handler is suspended at an await, and no polling task is
\* inside its except or finally block.
HandlersIdle ==
    /\ stopping = {}
    /\ \A k \in Monitors :
          /\ start_handler[k] # "testing"
          /\ tasks[k].pc \notin {"notifying", "cleanup"}

\* A polling loop that is alive and polls (or, not yet run, will poll) monitor m.
LiveLoop(m) ==
    \E k \in Monitors :
        \/ tasks[k].pc \in {"cycle", "sleep"} /\ tasks[k].monitor = m
        \/ tasks[k].pc = "created" /\ k = m

\* C38: whenever no start or stop handler is suspended, the owner is in the
\* running set exactly when the owner has an entry in the active monitors and
\* a live polling loop bound to that monitor.
C38_RunningIffMonitorAndLoop ==
    HandlersIdle =>
        (BotOwner \in running_users
            <=> (active_monitors # 0 /\ LiveLoop(active_monitors)))

\* ------------------------------------------------------------------------
\* Claims about records that do not load (checked under NestedSpec)
\* ------------------------------------------------------------------------

\* File f holds record rec under owner key k and name n.
Stored(f, k, n, rec) ==
    /\ f.exists
    /\ f.complete
    /\ \E j \in 1..Len(f.data) :
          /\ f.data[j][1] = k
          /\ n \in DOMAIN f.data[j][2]
          /\ f.data[j][2][n] = rec

\* C39: a record of the live file that fails to load stays in the live file
\* through the load and through every step of a later save or delete of a
\* different record.
C39_FailedRecordStaysStored ==
    [][\A i \in 1..Len(config_file.data) :
          \A n \in DOMAIN config_file.data[i][2] :
              (/\ config_file.complete
               /\ ~_is_old_format(config_file.data)
               /\ FromDictRaises(config_file.data[i][2][n])
               /\ op'.kind \in {"load", "save", "delete"}
               /\ ~(/\ op'.owner = KeyOwner(config_file.data[i][1])
                    /\ op'.name \in {n, None, ""}))
                  => Stored(config_file', config_file.data[i][1], n,
                            config_file.data[i][2][n])]_vars

\* C40: in every state of the registry, after any load, migration, save or
\* delete, no owner key maps to an empty map of configurations.
C40_NoOwnerWithoutConfigs ==
    \A i \in 1..Len(user_configs) : DOMAIN user_configs[i][2] # {}

====
